---- MODULE Spec2Model ----
(***************************************************************************)
(* A model of contemplate: the source registry and its watch loop          *)
(* (src/datasource/mod.rs), the watch callback (src/main.rs), the layered  *)
(* merge (src/datasource/k8s.rs, mod coalesce), the ordering of sources    *)
(* built from the command line (src/cli.rs), the template source state     *)
(* machine and the application of a plan's operations (src/plan.rs), the   *)
(* reload action (src/reload.rs), the plan of the command line             *)
(* (src/cli.rs), the program as a whole (src/main.rs) and the watchers of  *)
(* the sources (src/datasource/file.rs, k8s.rs).                           *)
(*                                                                         *)
(* Every subsystem has its own variables, initial condition and next-state *)
(* relation; a specification runs one subsystem and holds the variables of *)
(* the others at their idle values.                                        *)
(***************************************************************************)
EXTENDS Integers, Sequences, FiniteSets, TLC

(***************************************************************************)
(* Bounds of the model.                                                    *)
(***************************************************************************)
\* Sources of a watched registry.
MaxWatchSources == 2
\* notify / notify_async calls issued by all sources together.
MaxNotify == 4
\* Invocations of the onChange callback.
MaxCycles == 5
\* Calls of SourceRegistry::watch on one registry.
MaxCalls == 2
\* Sources of a registry read by as_figment.
MaxLayers == 3
\* Data source flags on a command line.
MaxFlags == 3
\* Source specs in CONTEMPLATE_DATASOURCES.
MaxEnvSpecs == 2
\* Operations of a plan.
MaxOps == 2
\* Calls of ensure_cached on one operation.
MaxEnsure == 2
\* Calls of Plan::execute and Plan::try_execute on one plan.
MaxExec == 2
\* Calls of OnReload::execute on one OnReload.
MaxReloads == 3
MaxTasks == 2

\* mpsc::channel(1): the capacity of the registry's watch channel.
Capacity == 1

VARIABLES
    \* ---- the watched registry (datasource/mod.rs, main.rs::run_watch)
    srcKind,      \* SourceRegistry.sources: the kind of each source, in order
    watch_rx,     \* SourceRegistry.watch_rx: "some" | "none"
    pc,           \* position of the watch call
    regI,         \* index of the next source the watch call registers
    notifier,     \* per source: the Notifier handed to it
    watchCount,   \* per source: how often Source::watch was called on it
    sender,       \* per source: "idle" | "sending" (inside notify)
    chan,         \* messages queued in the watch channel
    cbPhase,      \* per callback invocation: its phase
    calls,        \* history: calls of SourceRegistry::watch
    issued,       \* history: notify calls started
    completed,    \* history: notify calls whose send returned Ok
    during,       \* history: notify calls started while the first callback ran
    outside,      \* history: notify calls started at any other time
    \* ---- one call of SourceRegistry::as_figment (datasource/mod.rs)
    figSrc,       \* per source, in order: what merge_to_figment gives
    figI,         \* index of the next source as_figment reads
    figAcc,       \* the `figment` accumulator
    figStatus,    \* "running" | "ok" | "fatal"
    figErr,       \* index of the source whose error as_figment returned, or 0
    figSeen,      \* history: the sources consulted, in the order consulted
    \* ---- Cli::sources (cli.rs)
    cliArgs,      \* the data source flags of the command line, left to right
    cliEnvSpecs,  \* the source specs CONTEMPLATE_DATASOURCES was written from
    cliEnv,       \* env::var("CONTEMPLATE_DATASOURCES"): None or Some(text)
    cliPc,        \* "parsed" | "built"
    cliReg,       \* the sources of the SourceRegistry Cli::sources returns
    \* ---- the plan's template sources and the template engine (plan.rs)
    planOps,      \* Plan.operations: per operation its TemplateSource
    planI,        \* Plan::ensure_cached: the operation its loop is at, or 0
    engine,       \* minijinja::Environment: template name -> text, if cached
    files,        \* the file system: path -> text, if the file exists
    stdin,        \* what is left to read on standard input
    ecCalls,      \* history, per operation: calls of ensure_cached
    ecCached,     \* history, per operation: moves from uncompiled to Cached
    ecRaw,        \* history, per operation: the raw text read when it was cached
    reads,        \* history: reads of a template file or of standard input
    compiles,     \* history: templates added to the engine
    lastRes,      \* the result of the latest ensure_cached
    \* ---- applying the operations of a plan (plan.rs)
    mtime,        \* the file system: per path, how often the file was modified
    stdout,       \* the texts written to standard output, in order
    exec,         \* the running Plan::execute / Plan::try_execute, if any
    execs,        \* history: calls of Plan::execute and Plan::try_execute
    lastApply,    \* history: the latest TemplateOperation::apply
    opLog,        \* history, per operation: its applies, in order
    lastExec,     \* history: the latest execute / try_execute that returned
    \* ---- the reload action (reload.rs)
    rAction,      \* OnReload.action
    rChild,       \* OnReload.child: None, or Some(pid) of the tracked child
    rProcs,       \* the processes execute has spawned, in order
    rWaited,      \* the pids a spawned task waits for
    rLog,         \* history: the kills and spawns of execute, in order
    rPpid,        \* the parent process of this process
    rCalls,       \* history: calls of OnReload::execute
    rFailed,      \* history: calls of OnReload::execute that returned Err
    rLast,        \* history: the latest call of OnReload::execute that returned
    rTask,        \* per caller: how far its call of OnReload::execute has got
    rOverlapped,  \* history: a call was started while another was under way
    \* ---- the plan of the command line (cli.rs)
    matches,      \* the ArgMatches of the template arguments, if parsed
    clPc,         \* "args" | "clap_error" | "not_unique" | "no_notify" | "valid" | "planned"
    clPlan,       \* None, or Some(plan) once main has called Cli::plan
    \* ---- the program (main.rs)
    gArgs,        \* the command line: its matches, --dry-run, the reload action
    gPc,          \* where main, run_oneshot or the watch loop is
    gPlan,        \* the plan
    gSt,          \* the template engine and the file system
    gData,        \* what the data file gives to x, if it can be parsed
    gI,           \* the operation try_execute / execute is at
    gRuns,        \* history: the one-shot pass and the calls of the callback
    gWatcher,     \* the File source holds a watcher
    gRegistered,  \* history: calls of Source::watch
    gEvents,      \* history: modifications of the data file
    gSending,     \* notify calls that have not returned
    gChan,        \* notifications queued in the channel
    gRl,          \* OnReload: the tracked child, the processes spawned, the log
    \* ---- the watcher of one source (datasource/file.rs, k8s.rs, mod.rs)
    sKind,        \* the kind of the source
    sWatch,       \* "none" | "held" | "dropped" | "unwatched": its Notifier
    sGen,         \* the cluster object's metadata.generation, if it has one
    sCache,       \* the generation the predicate filter has seen last, if any
    sLog          \* history: the events handed to the watcher, in order

wvars == <<srcKind, watch_rx, pc, regI, notifier, watchCount, sender, chan,
           cbPhase, calls, issued, completed, during, outside>>

mvars == <<figSrc, figI, figAcc, figStatus, figErr, figSeen>>

cvars == <<cliArgs, cliEnvSpecs, cliEnv, cliPc, cliReg>>

tvars == <<planOps, planI, engine, files, stdin, ecCalls, ecCached, ecRaw, reads,
           compiles, lastRes>>

avars == <<mtime, stdout, exec, execs, lastApply, opLog, lastExec>>

rvars == <<rAction, rChild, rProcs, rWaited, rLog, rPpid, rCalls, rFailed, rLast,
          rTask, rOverlapped>>

pvars == <<matches, clPc, clPlan>>

gvars == <<gArgs, gPc, gPlan, gSt, gData, gI, gRuns, gWatcher, gRegistered,
           gEvents, gSending, gChan, gRl>>

svars == <<sKind, sWatch, sGen, sCache, sLog>>

vars == <<wvars, mvars, cvars, tvars, avars, rvars, pvars, gvars, svars>>

\* The variables of the other subsystems, which a subsystem's steps leave
\* alone.
notW == <<mvars, cvars, tvars, avars, rvars, pvars, gvars, svars>>
notM == <<wvars, cvars, tvars, avars, rvars, pvars, gvars, svars>>
notC == <<wvars, mvars, tvars, avars, rvars, pvars, gvars, svars>>
notT == <<wvars, mvars, cvars, avars, rvars, pvars, gvars, svars>>
notA == <<wvars, mvars, cvars, rvars, pvars, gvars, svars>>
notR == <<wvars, mvars, cvars, tvars, avars, pvars, gvars, svars>>
notP == <<wvars, mvars, cvars, tvars, avars, rvars, gvars, svars>>
notG == <<wvars, mvars, cvars, tvars, avars, rvars, pvars, svars>>
notS == <<wvars, mvars, cvars, tvars, avars, rvars, pvars, gvars>>

(***************************************************************************)
(* The watched registry.                                                   *)
(***************************************************************************)
SourceKinds == {"environment", "file", "k8s"}

SeqsUpTo(S, n) == UNION {[1..m -> S] : m \in 0..n}

Sources == 1..Len(srcKind)

\* The phases of the callback run_watch passes to watch, in which a
\* reconciliation is in progress.
ActivePhases == {"snapshot", "execute", "reload"}

Running == {"reg", "recv", "cb"}

cbStarted == Cardinality({k \in 1..MaxCycles : cbPhase[k] # "none"})

cbActive == {k \in 1..MaxCycles : cbPhase[k] \in ActivePhases}

\* The receiver lives in the registry until watch takes it, and then in the
\* watch call until that returns or unwinds.
RxAlive == watch_rx = "some" \/ pc \in Running

\* The Sender handles of the channel: the registry's own watch_tx, and one
\* clone per Notifier a source still holds.
TxHandles ==
    {<<"watch_tx", 0>>} \cup {<<"notifier", s>> : s \in {t \in Sources : notifier[t] = "held"}}

\* A take that leaves the receiver in place (as_mut in place of take).
TakeRxKept(rx) == [got |-> rx = "some", left |-> rx]

\* self.watch_rx.take()
TakeRx(rx) == [got |-> rx = "some", left |-> "none"]

\* A send that never waits for capacity (an unbounded channel).
SendUnbounded(c, alive) ==
    IF ~alive
    THEN [ready |-> TRUE, ok |-> FALSE, chan |-> c]
    ELSE [ready |-> TRUE, ok |-> TRUE, chan |-> c + 1]

\* A send that gives up when the slot is taken (try_send, its error ignored).
SendOrDrop(c, alive) ==
    IF ~alive
    THEN [ready |-> TRUE, ok |-> FALSE, chan |-> c]
    ELSE [ready |-> TRUE, ok |-> TRUE, chan |-> IF c < Capacity THEN c + 1 ELSE c]

\* Sender::send / Sender::blocking_send on the bounded channel: waits for
\* capacity, fails at once when the receiver is gone.
Send(c, alive) ==
    IF ~alive
    THEN [ready |-> TRUE, ok |-> FALSE, chan |-> c]
    ELSE [ready |-> c < Capacity, ok |-> TRUE, chan |-> c + 1]

\* A recv that does not wait: with nothing queued it still wakes the loop
\* (try_recv with its Empty error taken for a notification).
RecvSpurious(c, handles) ==
    IF c > 0 THEN [kind |-> "msg", chan |-> c - 1]
    ELSE IF handles = {} THEN [kind |-> "closed", chan |-> c]
    ELSE [kind |-> "msg", chan |-> c]

\* Receiver::recv: a queued message, or None once every Sender is dropped
\* and the queue is empty, or else wait.
Recv(c, handles) ==
    IF c > 0 THEN [kind |-> "msg", chan |-> c - 1]
    ELSE IF handles = {} THEN [kind |-> "closed", chan |-> c]
    ELSE [kind |-> "block", chan |-> c]

\* A loop that starts the callback without awaiting it.
AfterDispatchSpawned == "recv"

\* cb(self_).await: the loop is suspended in the callback until it returns.
AfterDispatch == "cb"

\* What Source::watch does with the Notifier it is given. The default
\* (Environment) drops it; File keeps it in the watcher's handler unless the
\* watcher cannot be created; the k8s sources move it into the spawned watch
\* task unless no client can be built.
WatchOutcome(kind, created) ==
    IF kind = "environment" THEN "dropped"
    ELSE IF created THEN "held" ELSE "dropped"

WInit ==
    /\ srcKind \in SeqsUpTo(SourceKinds, MaxWatchSources)
    /\ watch_rx = "some"
    /\ pc = "idle"
    /\ regI = 1
    /\ notifier = [s \in 1..Len(srcKind) |-> "none"]
    /\ watchCount = [s \in 1..Len(srcKind) |-> 0]
    /\ sender = [s \in 1..Len(srcKind) |-> "idle"]
    /\ chan = 0
    /\ cbPhase = [k \in 1..MaxCycles |-> "none"]
    /\ calls = 0
    /\ issued = 0
    /\ completed = 0
    /\ during = 0
    /\ outside = 0

\* SourceRegistry::watch is called: it takes the receiver or panics.
WatchCall ==
    /\ pc \in {"idle", "returned", "panicked"}
    /\ calls < MaxCalls
    /\ calls' = calls + 1
    /\ LET t == TakeRx(watch_rx) IN
        /\ watch_rx' = t.left
        /\ IF t.got
           THEN /\ pc' = IF Len(srcKind) = 0 THEN "recv" ELSE "reg"
                /\ regI' = 1
           ELSE /\ pc' = "panicked"
                /\ regI' = regI
    /\ UNCHANGED <<srcKind, notifier, watchCount, sender, chan, cbPhase,
                   issued, completed, during, outside>>
    /\ UNCHANGED notW

\* One turn of `for source in self.sources.iter_mut()`.
WatchRegister(created) ==
    /\ pc = "reg"
    /\ regI \in Sources
    /\ watchCount' = [watchCount EXCEPT ![regI] = @ + 1]
    /\ notifier' = [notifier EXCEPT ![regI] = WatchOutcome(srcKind[regI], created)]
    /\ regI' = regI + 1
    /\ pc' = IF regI = Len(srcKind) THEN "recv" ELSE "reg"
    /\ UNCHANGED <<srcKind, watch_rx, sender, chan, cbPhase, calls, issued,
                   completed, during, outside>>
    /\ UNCHANGED notW

\* A source's watcher sees a change and calls notify / notify_async.
NotifyCall(s) ==
    /\ notifier[s] = "held"
    /\ sender[s] = "idle"
    /\ issued < MaxNotify
    /\ sender' = [sender EXCEPT ![s] = "sending"]
    /\ issued' = issued + 1
    /\ IF cbPhase[1] \in ActivePhases
       THEN during' = during + 1 /\ outside' = outside
       ELSE during' = during /\ outside' = outside + 1
    /\ UNCHANGED <<srcKind, watch_rx, pc, regI, notifier, watchCount, chan,
                   cbPhase, calls, completed>>
    /\ UNCHANGED notW

\* The send inside notify returns: the message is queued, or the receiver is
\* gone and the error is logged.
NotifyReturn(s) ==
    /\ sender[s] = "sending"
    /\ LET r == Send(chan, RxAlive) IN
        /\ r.ready
        /\ chan' = r.chan
        /\ completed' = IF r.ok THEN completed + 1 ELSE completed
    /\ sender' = [sender EXCEPT ![s] = "idle"]
    /\ UNCHANGED <<srcKind, watch_rx, pc, regI, notifier, watchCount,
                   cbPhase, calls, issued, during, outside>>
    /\ UNCHANGED notW

\* watch_rx.recv().await in the loop, and the call of the callback.
WatchRecv ==
    /\ pc = "recv"
    /\ cbStarted < MaxCycles
    /\ LET r == Recv(chan, TxHandles) IN
        /\ r.kind # "block"
        /\ chan' = r.chan
        /\ IF r.kind = "msg"
           THEN /\ cbPhase' = [cbPhase EXCEPT ![cbStarted + 1] = "snapshot"]
                /\ pc' = AfterDispatch
           ELSE /\ cbPhase' = cbPhase
                /\ pc' = "returned"
    /\ UNCHANGED <<srcKind, watch_rx, regI, notifier, watchCount, sender,
                   calls, issued, completed, during, outside>>
    /\ UNCHANGED notW

\* The callback returns to the loop.
CbReturn(k) ==
    /\ cbPhase' = [cbPhase EXCEPT ![k] = "done"]
    /\ pc' = IF pc = "cb" THEN "recv" ELSE pc
    /\ chan' = chan

\* sources.as_figment().await.unwrap().extract(): a Fatal source error
\* panics in unwrap and unwinds the watch call, dropping the receiver and
\* what it holds; an extraction error is logged and the callback returns.
CbSnapshot(k, outcome) ==
    /\ cbPhase[k] = "snapshot"
    /\ CASE outcome = "ok" ->
              /\ cbPhase' = [cbPhase EXCEPT ![k] = "execute"]
              /\ UNCHANGED <<pc, chan>>
         [] outcome = "extract_error" -> CbReturn(k)
         [] outcome = "fatal" ->
              /\ cbPhase' = [cbPhase EXCEPT ![k] = "panicked"]
              /\ pc' = "panicked"
              /\ chan' = 0
    /\ UNCHANGED <<srcKind, watch_rx, regI, notifier, watchCount, sender,
                   calls, issued, completed, during, outside>>
    /\ UNCHANGED notW

\* plan.lock().await; plan.execute(..): nothing updated ends the callback.
CbExecute(k, updated) ==
    /\ cbPhase[k] = "execute"
    /\ IF updated
       THEN /\ cbPhase' = [cbPhase EXCEPT ![k] = "reload"]
            /\ UNCHANGED <<pc, chan>>
       ELSE CbReturn(k)
    /\ UNCHANGED <<srcKind, watch_rx, regI, notifier, watchCount, sender,
                   calls, issued, completed, during, outside>>
    /\ UNCHANGED notW

\* on_reload.lock().await.execute(updated_files).await, its error logged.
CbReload(k) ==
    /\ cbPhase[k] = "reload"
    /\ CbReturn(k)
    /\ UNCHANGED <<srcKind, watch_rx, regI, notifier, watchCount, sender,
                   calls, issued, completed, during, outside>>
    /\ UNCHANGED notW

WNext ==
    \/ WatchCall
    \/ \E created \in BOOLEAN : WatchRegister(created)
    \/ \E s \in Sources : NotifyCall(s)
    \/ \E s \in Sources : NotifyReturn(s)
    \/ WatchRecv
    \/ \E k \in 1..MaxCycles, o \in {"ok", "extract_error", "fatal"} : CbSnapshot(k, o)
    \/ \E k \in 1..MaxCycles, u \in BOOLEAN : CbExecute(k, u)
    \/ \E k \in 1..MaxCycles : CbReload(k)

\* The watched registry before it is built: no source, nothing called.
WIdle ==
    /\ srcKind = << >>
    /\ watch_rx = "some"
    /\ pc = "idle"
    /\ regI = 1
    /\ notifier = << >>
    /\ watchCount = << >>
    /\ sender = << >>
    /\ chan = 0
    /\ cbPhase = [k \in 1..MaxCycles |-> "none"]
    /\ calls = 0
    /\ issued = 0
    /\ completed = 0
    /\ during = 0
    /\ outside = 0

(***************************************************************************)
(* Configuration values and their layered merge (k8s.rs, mod coalesce, the *)
(* copy of figment's merge), and SourceRegistry::as_figment.               *)
(***************************************************************************)
\* figment::value::Value: a scalar, an array or a dict, tagged.
Num(n) == <<"num", n>>
Arr(s) == <<"arr", s>>
Dict(d) == <<"dict", d>>

IsDict(v) == v[1] = "dict"
IsArr(v) == v[1] = "arr"

\* Figment::new(): no data.
EmptyDict == [k \in {} |-> Num(0)]

Orders == {"Merge", "Join", "Adjoin", "Admerge"}

RECURSIVE CoalesceValue(_, _, _)
RECURSIVE CoalesceMap(_, _, _)

\* impl Coalescible for Value
CoalesceValue(a, b, o) ==
    IF IsDict(a) /\ IsDict(b)
    THEN Dict(CoalesceMap(a[2], b[2], o))
    ELSE IF IsArr(a) /\ IsArr(b) /\ o \in {"Adjoin", "Admerge"}
    THEN Arr(a[2] \o b[2])
    ELSE IF o \in {"Join", "Adjoin"} THEN a ELSE b

\* impl Coalescible for Map<K, V>: the keys of `self`, each coalesced with
\* the value `other` has for it, and then what is left of `other`.
CoalesceMap(a, b, o) ==
    [k \in DOMAIN a \cup DOMAIN b |->
        IF k \in DOMAIN a
        THEN IF k \in DOMAIN b THEN CoalesceValue(a[k], b[k], o) ELSE a[k]
        ELSE b[k]]

\* A merge that also appends arrays (Order::Admerge).
MergeAdmerge(a, b) == CoalesceMap(a, b, "Admerge")

\* Coalescible::merge: coalesce(other, Order::Merge); figment.merge(provider)
\* in every merge_to_figment.
Merge(a, b) == CoalesceMap(a, b, "Merge")

\* The layers the sources of the model provide.
Layers ==
    { [a |-> Dict([x |-> Num(1), y |-> Num(2)])],
      [a |-> Dict([y |-> Num(3), z |-> Num(4)])],
      [a |-> Arr(<<1, 2>>)],
      [a |-> Arr(<<3>>)],
      [a |-> Num(1), b |-> Num(2)],
      [b |-> Dict([x |-> Dict([p |-> Num(1)]), y |-> Num(5)])],
      [b |-> Dict([x |-> Dict([q |-> Num(2)]), y |-> Arr(<<1>>)])],
      EmptyDict }

\* What Source::merge_to_figment returns for a source: Ok with its layer
\* merged in, Err(Recoverable) or Err(Fatal).
SourceResults ==
    {[res |-> "ok", layer |-> l] : l \in Layers}
        \cup {[res |-> r, layer |-> EmptyDict] : r \in {"recoverable", "fatal"}}

\* An as_figment whose recoverable arm is missing: every error is returned.
FigStepStrict(acc, r) ==
    IF r.res = "ok" THEN [status |-> "running", acc |-> Merge(acc, r.layer)]
    ELSE [status |-> "fatal", acc |-> acc]

\* The body of as_figment's loop for one source, given the accumulator.
FigStep(acc, r) ==
    IF r.res = "recoverable" THEN [status |-> "running", acc |-> acc]
    ELSE IF r.res = "ok" THEN [status |-> "running", acc |-> Merge(acc, r.layer)]
    ELSE [status |-> "fatal", acc |-> acc]

MIdle ==
    /\ figSrc = << >>
    /\ figI = 1
    /\ figAcc = EmptyDict
    /\ figStatus = "idle"
    /\ figErr = 0
    /\ figSeen = << >>

\* as_figment is entered: let mut figment = Figment::new().
MInit ==
    /\ figSrc \in SeqsUpTo(SourceResults, MaxLayers)
    /\ figI = 1
    /\ figAcc = EmptyDict
    /\ figStatus = "running"
    /\ figErr = 0
    /\ figSeen = << >>

\* One turn of `for source in &self.sources`.
AsFigmentStep ==
    /\ figStatus = "running"
    /\ figI <= Len(figSrc)
    /\ LET r == FigStep(figAcc, figSrc[figI]) IN
        /\ figStatus' = r.status
        /\ figAcc' = r.acc
        /\ figErr' = IF r.status = "fatal" THEN figI ELSE figErr
    /\ figSeen' = Append(figSeen, figI)
    /\ figI' = figI + 1
    /\ UNCHANGED figSrc
    /\ UNCHANGED notM

\* Ok(figment)
AsFigmentReturn ==
    /\ figStatus = "running"
    /\ figI > Len(figSrc)
    /\ figStatus' = "ok"
    /\ UNCHANGED <<figSrc, figI, figAcc, figErr, figSeen>>
    /\ UNCHANGED notM

MNext == AsFigmentStep \/ AsFigmentReturn


(***************************************************************************)
(* Cli::sources: the registry built from CONTEMPLATE_DATASOURCES and the   *)
(* command line (cli.rs). A string is a sequence of tokens: words, and the *)
(* separators "," and ":".                                                 *)
(***************************************************************************)
Some(x) == <<"some", x>>
None == <<"none">>

\* The data source arguments, in the order Cli::sources goes through them.
SourceTypes == <<"file", "environment", "k8s-configmap", "k8s-secret">>

\* The occurrences of a data source flag on the command line: the flag and
\* the value given with it, if any.
FlagSet ==
    { [type |-> "file", val |-> Some(<<"A">>)],
      [type |-> "file", val |-> Some(<<"B">>)],
      [type |-> "environment", val |-> None],
      [type |-> "environment", val |-> Some(<<"APP">>)],
      [type |-> "k8s-configmap", val |-> Some(<<"cm">>)],
      [type |-> "k8s-secret", val |-> Some(<<"sec">>)] }

\* The `type:arg` specs of the environment variable.
EnvSpecSet ==
    { [type |-> "file", arg |-> Some(<<"E">>)],
      [type |-> "environment", arg |-> None],
      [type |-> "environment", arg |-> Some(<< >>)],
      [type |-> "environment", arg |-> Some(<<"APP">>)],
      [type |-> "k8s-configmap", arg |-> Some(<<"cm">>)] }

\* The text of one spec, and of the variable: the specs joined by ",".
SpecText(sp) == IF sp.arg = None THEN <<sp.type>> ELSE <<sp.type, ":">> \o sp.arg[2]

RECURSIVE JoinSpecs(_)
JoinSpecs(sps) ==
    IF Len(sps) = 1 THEN SpecText(sps[1])
    ELSE SpecText(sps[1]) \o <<",">> \o JoinSpecs(Tail(sps))

\* clap's matches for the data source flags: per occurrence its argument,
\* its value (default_missing_value("") for --environment without a value)
\* and the index of that value; every flag and every value advances clap's
\* index by one.
ClapMatches(args) ==
    [i \in 1..Len(args) |->
        [type |-> args[i].type,
         value |-> IF args[i].val = None THEN << >> ELSE args[i].val[2],
         index |-> 2 * i]]

\* matches.get_occurrences(source_type): the first value of each occurrence.
GetOccurrences(m, t) ==
    LET occ == SelectSeq(m, LAMBDA o : o.type = t)
    IN  [j \in 1..Len(occ) |-> Some(occ[j].value)]

\* matches.indices_of(source_type)
IndicesOf(m, t) ==
    LET occ == SelectSeq(m, LAMBDA o : o.type = t)
    IN  [j \in 1..Len(occ) |-> occ[j].index]

\* std::iter::zip(..).map(|(value, index)| (source_type, value, index))
ZipTyped(t, values, indices) ==
    [j \in 1..(IF Len(values) < Len(indices) THEN Len(values) ELSE Len(indices)) |->
        [type |-> t, arg |-> values[j], index |-> indices[j]]]

RECURSIVE FlatMapTypes(_, _)
\* ["file", "environment", "k8s-configmap", "k8s-secret"].flat_map(..)
FlatMapTypes(m, types) ==
    IF Len(types) = 0 THEN << >>
    ELSE ZipTyped(types[1], GetOccurrences(m, types[1]), IndicesOf(m, types[1]))
            \o FlatMapTypes(m, Tail(types))

RECURSIVE InsertByIndex(_, _)
\* e placed after every element whose index is not larger (a stable sort).
InsertByIndex(sorted, e) ==
    IF Len(sorted) = 0 THEN <<e>>
    ELSE IF sorted[Len(sorted)].index <= e.index THEN Append(sorted, e)
    ELSE Append(InsertByIndex(SubSeq(sorted, 1, Len(sorted) - 1), e), sorted[Len(sorted)])

RECURSIVE SortLoop(_, _)
SortLoop(sorted, rest) ==
    IF Len(rest) = 0 THEN sorted
    ELSE SortLoop(InsertByIndex(sorted, rest[1]), Tail(rest))

\* The sources left in the order of the flat_map: grouped by flag type.
SortSkipped(xs) == xs

\* sources.sort_by(|(_, _, a), (_, _, b)| a.cmp(b))
SortByIndex(xs) == SortLoop(<< >>, xs)

\* Cli::get_source_from_spec: the source of a type and an optional argument;
\* an Environment with an empty prefix has none.
GetSourceFromSpec(t, arg) ==
    IF t = "environment"
    THEN [kind |-> t, arg |-> IF arg = None THEN None
                              ELSE IF Len(arg[2]) = 0 THEN None ELSE arg]
    ELSE [kind |-> t, arg |-> arg]

RECURSIVE Split(_, _, _)
\* str::split(sep): the pieces of ts between the separators; cur is the
\* piece being read.
Split(ts, sep, cur) ==
    IF Len(ts) = 0 THEN <<cur>>
    ELSE IF ts[1] = sep THEN <<cur>> \o Split(Tail(ts), sep, << >>)
    ELSE Split(Tail(ts), sep, Append(cur, ts[1]))

RECURSIVE IndexOf(_, _, _)
\* The first position from i on at which ts holds tok, or 0.
IndexOf(ts, tok, i) ==
    IF i > Len(ts) THEN 0
    ELSE IF ts[i] = tok THEN i ELSE IndexOf(ts, tok, i + 1)

\* source_spec.splitn(2, ':'): the type, and the argument if there is a ':'.
SplitSpec(spec) ==
    LET c == IndexOf(spec, ":", 1) IN
    IF c = 0 THEN [type |-> spec, arg |-> None]
    ELSE [type |-> SubSeq(spec, 1, c - 1), arg |-> Some(SubSeq(spec, c + 1, Len(spec)))]

\* Cli::parse_source_env_variable
ParseSourceEnvVariable(value) ==
    LET specs == Split(value, ",", << >>) IN
    [j \in 1..Len(specs) |->
        LET sp == SplitSpec(specs[j]) IN GetSourceFromSpec(sp.type[1], sp.arg)]

\* Cli::sources: the sources of the variable, then those of the flags.
CliSourcesOf(env, args) ==
    LET sources_from_env ==
            IF env = None THEN << >> ELSE ParseSourceEnvVariable(env[2])
        sources == SortByIndex(FlatMapTypes(ClapMatches(args), SourceTypes))
        sources_from_args ==
            [j \in 1..Len(sources) |-> GetSourceFromSpec(sources[j].type, sources[j].arg)]
    IN  sources_from_env \o sources_from_args

CIdle ==
    /\ cliArgs = << >>
    /\ cliEnvSpecs = << >>
    /\ cliEnv = None
    /\ cliPc = "idle"
    /\ cliReg = << >>

\* The command line has been parsed: Cli::new.
CInit ==
    /\ cliArgs \in SeqsUpTo(FlagSet, MaxFlags)
    /\ cliEnvSpecs \in SeqsUpTo(EnvSpecSet, MaxEnvSpecs)
    /\ cliEnv = IF Len(cliEnvSpecs) = 0 THEN None ELSE Some(JoinSpecs(cliEnvSpecs))
    /\ cliPc = "parsed"
    /\ cliReg = << >>

\* cli.sources()
CliSources ==
    /\ cliPc = "parsed"
    /\ cliReg' = CliSourcesOf(cliEnv, cliArgs)
    /\ cliPc' = "built"
    /\ UNCHANGED <<cliArgs, cliEnvSpecs, cliEnv>>
    /\ UNCHANGED notC

CNext == CliSources

(***************************************************************************)
(* TemplateSource and its ensure_cached (plan.rs). A text is a sequence of *)
(* characters; "{%" stands for a block tag that is never closed, which the *)
(* template engine rejects.                                                *)
(***************************************************************************)
Paths == {"p", "q"}

\* The template texts of the model.
Texts == { << >>, <<"a">>, <<"a", "\n">>, <<"{%">> }

FileSystem(path) == <<"FileSystem", path>>
StdIn == <<"StdIn">>
Cached(name, nl) == <<"Cached", name, nl>>

IsCached(src) == src[1] = "Cached"

\* TemplateSource::from_path for the paths of the model, and "-".
TemplateSources == {FileSystem(path) : path \in Paths} \cup {StdIn}

\* The names under which templates are cached: a path, or "-" for stdin.
TemplateNames == Paths \cup {"-"}

\* env.add_template_owned(name, text)?: the engine compiles the text.
Compiles(text) == \A i \in 1..Len(text) : text[i] # "{%"

\* template.chars().last().map(|c| c == '\n').unwrap_or(false)
ContainsTrailingNewline(text) == IF Len(text) = 0 THEN FALSE ELSE text[Len(text)] = "\n"

\* The state ensure_cached reads and writes.
TplState == [engine |-> engine, files |-> files, stdin |-> stdin,
             reads |-> reads, compiles |-> compiles]

\* The text ensure_cached reads for a source and the name it caches it
\* under; opening a file that does not exist fails.
ReadTemplate(src, st) ==
    IF src[1] = "FileSystem"
    THEN IF st.files[src[2]] = None
         THEN [ok |-> FALSE, name |-> src[2], text |-> << >>, st |-> st]
         ELSE [ok |-> TRUE, name |-> src[2], text |-> st.files[src[2]][2],
               st |-> [st EXCEPT !.reads = @ + 1]]
    ELSE [ok |-> TRUE, name |-> "-", text |-> st.stdin,
          st |-> [st EXCEPT !.reads = @ + 1, !.stdin = << >>]]

\* What ensure_cached does after the match on the source.
CacheTemplate(src, st) ==
    LET r == ReadTemplate(src, st) IN
    IF ~r.ok THEN [res |-> "io_error", src |-> src, st |-> r.st, raw |-> None]
    ELSE IF ~Compiles(r.text)
    THEN [res |-> "template_error", src |-> src, st |-> r.st, raw |-> None]
    ELSE [res |-> "ok",
          src |-> Cached(r.name, ContainsTrailingNewline(r.text)),
          st |-> [r.st EXCEPT !.engine[r.name] = Some(r.text), !.compiles = @ + 1],
          raw |-> Some(r.text)]

\* An ensure_cached without the early return: a cached source is read again
\* from the path it is named after.
EnsureCachedAgain(src, st) ==
    IF IsCached(src)
    THEN CacheTemplate(IF src[2] = "-" THEN StdIn ELSE FileSystem(src[2]), st)
    ELSE CacheTemplate(src, st)

\* TemplateSource::ensure_cached
EnsureCachedOf(src, st) ==
    IF IsCached(src)
    THEN [res |-> "ok", src |-> src, st |-> st, raw |-> None]
    ELSE CacheTemplate(src, st)

\* TemplateSource::get_template: the engine's template of the cached name
GetTemplate(src, eng) == eng[src[2]]

TIdle ==
    /\ planOps = << >>
    /\ planI = 0
    /\ engine = [n \in TemplateNames |-> None]
    /\ files = [path \in Paths |-> None]
    /\ stdin = << >>
    /\ ecCalls = << >>
    /\ ecCached = << >>
    /\ ecRaw = << >>
    /\ reads = 0
    /\ compiles = 0
    /\ lastRes = "none"

\* A plan as Cli::plan builds it, before any template is read; the engine
\* is new. The file p exists, q may not.
TInit ==
    /\ planOps \in (SeqsUpTo([source : TemplateSources], MaxOps) \ {<< >>})
    /\ planI = 0
    /\ engine = [n \in TemplateNames |-> None]
    /\ files \in {f \in [Paths -> {None} \cup {Some(t) : t \in Texts}] : f["p"] # None}
    /\ stdin \in Texts
    /\ ecCalls = [i \in 1..Len(planOps) |-> 0]
    /\ ecCached = [i \in 1..Len(planOps) |-> 0]
    /\ ecRaw = [i \in 1..Len(planOps) |-> None]
    /\ reads = 0
    /\ compiles = 0
    /\ lastRes = "none"

\* TemplateOperation::ensure_cached on operation i, which hands over to
\* TemplateSource::ensure_cached.
EnsureCached(i) ==
    /\ LET r == EnsureCachedOf(planOps[i].source, TplState) IN
        /\ planOps' = [planOps EXCEPT ![i].source = r.src]
        /\ engine' = r.st.engine
        /\ files' = r.st.files
        /\ stdin' = r.st.stdin
        /\ reads' = r.st.reads
        /\ compiles' = r.st.compiles
        /\ lastRes' = r.res
        /\ ecCached' = IF IsCached(r.src) /\ ~IsCached(planOps[i].source)
                       THEN [ecCached EXCEPT ![i] = @ + 1] ELSE ecCached
        /\ ecRaw' = IF r.raw = None THEN ecRaw ELSE [ecRaw EXCEPT ![i] = r.raw]
    /\ ecCalls' = [ecCalls EXCEPT ![i] = @ + 1]

\* The ensure_cached with which TemplateOperation::apply begins, on any
\* operation of the plan.
ApplyEnsureCached(i) ==
    /\ planI = 0
    /\ ecCalls[i] < MaxEnsure
    /\ EnsureCached(i)
    /\ UNCHANGED planI
    /\ UNCHANGED notT

\* Plan::ensure_cached is called: its loop starts at the first operation.
PlanEnsureCached ==
    /\ planI = 0
    /\ \A i \in 1..Len(planOps) : ecCalls[i] < MaxEnsure
    /\ planI' = 1
    /\ UNCHANGED <<planOps, engine, files, stdin, ecCalls, ecCached, ecRaw,
                   reads, compiles, lastRes>>
    /\ UNCHANGED notT

\* One turn of the loop of Plan::ensure_cached: the operation's
\* ensure_cached, whose error ends the loop.
PlanEnsureCachedStep ==
    /\ planI >= 1
    /\ EnsureCached(planI)
    /\ planI' = IF lastRes' # "ok" \/ planI = Len(planOps) THEN 0 ELSE planI + 1
    /\ UNCHANGED notT

TNext ==
    \/ \E i \in 1..Len(planOps) : ApplyEnsureCached(i)
    \/ PlanEnsureCached
    \/ PlanEnsureCachedStep

(***************************************************************************)
(* TemplateDestination, TemplateOperation::apply and the two ways to run a *)
(* plan (plan.rs). "{{x}}" prints the context's value of x, and            *)
(* "{{x|from_json}}" hands it to a filter that reads it as JSON.           *)
(***************************************************************************)
\* The texts of the template files of this part of the model.
ATexts == { << >>, <<"a">>, <<"a", "\n">>, <<"{{x}}">>, <<"{{x}}", "\n">>,
            <<"{%">>, <<"{{x|from_json}}">> }

\* The values the context gives to x.
Contexts == { <<"a">>, <<"b", "\n">> }

\* The paths of the file system: the template p, a file q that does not
\* exist, the output o and the backup of p.
APaths == {"p", "q", "o", "p.bak"}

StdOut == <<"StdOut">>

\* TemplateOperation { source, dest, backup }
Op(source, dest, backup) == [source |-> source, dest |-> dest, backup |-> backup]

\* The state apply reads and writes.
ApplyState == [engine |-> engine, files |-> files, stdin |-> stdin,
               reads |-> reads, compiles |-> compiles,
               mtime |-> mtime, stdout |-> stdout]

\* The file at a path, if there is one.
FileAt(st, path) == IF path \in DOMAIN st.files THEN st.files[path] ELSE None

\* A write that leaves the file at the path with the text.
WriteFile(st, path, text) ==
    [st EXCEPT !.files[path] = Some(text), !.mtime[path] = @ + 1]

\* The engine drops one trailing newline of a template's text.
StripNewline(text) ==
    IF ContainsTrailingNewline(text) THEN SubSeq(text, 1, Len(text) - 1) ELSE text

RECURSIVE RenderTokens(_, _)
RenderTokens(text, ctx) ==
    IF text = << >> THEN << >>
    ELSE (IF Head(text) \in {"{{x}}", "{{x|from_json}}"} THEN ctx ELSE <<Head(text)>>)
             \o RenderTokens(Tail(text), ctx)

\* Whether serde_json reads the value of x, as the from_json filter asks.
IsJson(ctx) == ctx = <<"1">>

\* Whether template.render(ctx) succeeds: a filter that cannot read its
\* value fails the rendering.
Renders(text, ctx) ==
    \A i \in 1..Len(text) : text[i] = "{{x|from_json}}" => IsJson(ctx)

\* template.render(ctx), for a text that renders.
Render(text, ctx) == RenderTokens(StripNewline(text), ctx)

\* The text apply never extends.
PushNewlineNever(templated, flag) == templated

\* if contains_trailing_newline { templated.push('\n') }
PushNewline(templated, flag) == IF flag THEN templated \o <<"\n">> ELSE templated

\* TemplateSource::path
SourcePath(src) == IF src[1] = "StdIn" THEN None ELSE Some(src[2])

\* <file name>.<extension>, next to the source
BackupPath(path, ext) == path \o "." \o ext

\* A do_backup that copies over whatever is at the backup path.
DoBackupOverwriting(op, st) ==
    IF op.backup = None \/ SourcePath(op.source) = None
    THEN [res |-> "ok", st |-> st]
    ELSE LET src == SourcePath(op.source)[2]
             bak == BackupPath(src, op.backup[2])
         IN  IF FileAt(st, src) = None
             THEN [res |-> "io_error", st |-> st]
             ELSE [res |-> "ok", st |-> WriteFile(st, bak, FileAt(st, src)[2])]

\* TemplateOperation::do_backup, but for the take() of the extension
DoBackup(op, st) ==
    IF op.backup = None \/ SourcePath(op.source) = None
    THEN [res |-> "ok", st |-> st]
    ELSE LET src == SourcePath(op.source)[2]
             bak == BackupPath(src, op.backup[2])
         IN  IF FileAt(st, bak) # None /\ FileAt(st, src) = None
             THEN [res |-> "io_error", st |-> st]
             ELSE IF FileAt(st, bak) # None /\ FileAt(st, bak) # FileAt(st, src)
             THEN [res |-> "backup_would_be_overwritten", st |-> st]
             ELSE IF FileAt(st, src) = None
             THEN [res |-> "io_error", st |-> st]
             ELSE [res |-> "ok", st |-> WriteFile(st, bak, FileAt(st, src)[2])]

\* OpenOptions .read(true).write(true).create(true).open(path)
OpenCreate(st, path) ==
    IF FileAt(st, path) = None THEN WriteFile(st, path, << >>) ELSE st

\* A write_templated that does not truncate: what the file held beyond the
\* length of the new text stays.
WriteTemplatedKeepingTail(dest, templated, st) ==
    IF dest[1] = "FileSystem"
    THEN LET opened == OpenCreate(st, dest[2])
             existing == opened.files[dest[2]][2]
             kept == IF Len(existing) > Len(templated)
                     THEN SubSeq(existing, Len(templated) + 1, Len(existing))
                     ELSE << >>
         IN  IF existing # templated
             THEN [changed |-> TRUE, st |-> WriteFile(opened, dest[2], templated \o kept)]
             ELSE [changed |-> FALSE, st |-> opened]
    ELSE [changed |-> TRUE, st |-> [st EXCEPT !.stdout = Append(@, templated)]]

\* A write_templated that writes without comparing.
WriteTemplatedAlways(dest, templated, st) ==
    IF dest[1] = "FileSystem"
    THEN [changed |-> FileAt(OpenCreate(st, dest[2]), dest[2])[2] # templated,
          st |-> WriteFile(OpenCreate(st, dest[2]), dest[2], templated)]
    ELSE [changed |-> TRUE, st |-> [st EXCEPT !.stdout = Append(@, templated)]]

\* A write_templated that compares standard output as it compares a file:
\* a text equal to the one emitted last is not emitted again.
WriteTemplatedQuiet(dest, templated, st) ==
    IF dest[1] = "FileSystem"
    THEN LET opened == OpenCreate(st, dest[2])
             changed == opened.files[dest[2]][2] # templated
         IN  IF changed
             THEN [changed |-> TRUE, st |-> WriteFile(opened, dest[2], templated)]
             ELSE [changed |-> FALSE, st |-> opened]
    ELSE IF st.stdout # << >> /\ st.stdout[Len(st.stdout)] = templated
    THEN [changed |-> FALSE, st |-> st]
    ELSE [changed |-> TRUE, st |-> [st EXCEPT !.stdout = Append(@, templated)]]

\* TemplateDestination::write_templated, with the comparison of diff
WriteTemplated(dest, templated, st) ==
    IF dest[1] = "FileSystem"
    THEN LET opened == OpenCreate(st, dest[2])
             changed == opened.files[dest[2]][2] # templated
         IN  IF changed
             THEN [changed |-> TRUE, st |-> WriteFile(opened, dest[2], templated)]
             ELSE [changed |-> FALSE, st |-> opened]
    ELSE [changed |-> TRUE, st |-> [st EXCEPT !.stdout = Append(@, templated)]]

\* The result of an apply.
ApplyResult(res, changed, op, st, out) ==
    [res |-> res, changed |-> changed, op |-> op, st |-> st, out |-> out]

\* The write before the backup.
WriteThenBackup(op, templated, st) ==
    LET w == WriteTemplated(op.dest, templated, st)
        b == DoBackup(op, w.st)
        taken == [op EXCEPT !.backup = None]
    IN  IF b.res # "ok"
        THEN ApplyResult(b.res, FALSE, taken, b.st, Some(templated))
        ELSE ApplyResult("ok", w.changed, taken, b.st, Some(templated))

\* A do_backup that reads the extension and leaves it with the operation.
BackupThenWriteKeeping(op, templated, st) ==
    LET b == DoBackup(op, st)
    IN  IF b.res # "ok"
        THEN ApplyResult(b.res, FALSE, op, b.st, Some(templated))
        ELSE LET w == WriteTemplated(op.dest, templated, b.st)
             IN  ApplyResult("ok", w.changed, op, w.st, Some(templated))

\* self.do_backup()?; ret = self.dest.write_templated(templated, log_diff)?
BackupThenWrite(op, templated, st) ==
    LET b == DoBackup(op, st)
        taken == [op EXCEPT !.backup = None]
    IN  IF b.res # "ok"
        THEN ApplyResult(b.res, FALSE, taken, b.st, Some(templated))
        ELSE LET w == WriteTemplated(op.dest, templated, b.st)
             IN  ApplyResult("ok", w.changed, taken, w.st, Some(templated))

\* An apply that does not look at dry_run.
AfterRenderWet(op, templated, st, dry_run) == BackupThenWrite(op, templated, st)

\* An apply whose dry run tells whether the destination would change.
AfterRenderTelling(op, templated, st, dry_run) ==
    IF dry_run
    THEN ApplyResult("ok",
                     IF op.dest[1] = "FileSystem"
                     THEN FileAt(st, op.dest[2]) # Some(templated) ELSE TRUE,
                     op, st, Some(templated))
    ELSE BackupThenWrite(op, templated, st)

\* An apply whose dry run reports a change.
AfterRenderDryChanged(op, templated, st, dry_run) ==
    IF dry_run
    THEN ApplyResult("ok", TRUE, op, st, Some(templated))
    ELSE BackupThenWrite(op, templated, st)

\* let mut ret = false; if !dry_run { .. }; Ok(ret)
AfterRender(op, templated, st, dry_run) ==
    IF dry_run
    THEN ApplyResult("ok", FALSE, op, st, Some(templated))
    ELSE BackupThenWrite(op, templated, st)

\* An apply that makes the backup before it renders.
ApplyOfBackupFirst(op, st, ctx, dry_run) ==
    LET c == EnsureCachedOf(op.source, st) IN
    IF c.res # "ok" THEN ApplyResult(c.res, FALSE, op, c.st, None)
    ELSE LET cached == [op EXCEPT !.source = c.src]
             text == c.st.engine[c.src[2]][2]
             b == IF dry_run THEN [res |-> "ok", st |-> c.st] ELSE DoBackup(cached, c.st)
             taken == IF dry_run THEN cached ELSE [cached EXCEPT !.backup = None]
         IN  IF b.res # "ok"
             THEN ApplyResult(b.res, FALSE, taken, b.st, None)
             ELSE IF ~Renders(text, ctx)
             THEN ApplyResult("template_error", FALSE, taken, b.st, None)
             ELSE AfterRender(taken, PushNewline(Render(text, ctx), c.src[3]),
                              b.st, dry_run)

\* TemplateOperation::apply
ApplyOf(op, st, ctx, dry_run) ==
    LET c == EnsureCachedOf(op.source, st) IN
    IF c.res # "ok" THEN ApplyResult(c.res, FALSE, op, c.st, None)
    ELSE LET cached == [op EXCEPT !.source = c.src]
             text == c.st.engine[c.src[2]][2]
         IN  IF ~Renders(text, ctx)
             THEN ApplyResult("template_error", FALSE, cached, c.st, None)
             ELSE AfterRender(cached, PushNewline(Render(text, ctx), c.src[3]),
                              c.st, dry_run)

\* The plans of this part of the model, each one built by Cli::plan for
\* some command line: the destinations of a plan are distinct, as
\* Cli::validate has it, and an operation with a backup is one of
\* TemplateOperation::new_in_place, whose destination is its source.
APlans ==
    { <<Op(FileSystem("p"), FileSystem("p"), Some("bak"))>>,
      <<Op(FileSystem("p"), FileSystem("p"), None)>>,
      <<Op(FileSystem("p"), FileSystem("o"), None)>>,
      <<Op(StdIn, StdOut, None)>>,
      <<Op(StdIn, StdOut, Some("bak"))>>,
      <<Op(FileSystem("q"), FileSystem("o"), None),
        Op(FileSystem("p"), FileSystem("p"), None)>>,
      <<Op(FileSystem("p"), FileSystem("p"), Some("bak")),
        Op(StdIn, FileSystem("o"), None)>>,
      <<Op(FileSystem("p"), StdOut, None),
        Op(FileSystem("p"), FileSystem("o"), None)>>,
      <<Op(StdIn, FileSystem("o"), None),
        Op(FileSystem("q"), FileSystem("p"), None)>> }

\* The file systems a plan may meet: p exists, q does not.
AFiles ==
    { [path \in APaths |->
          CASE path = "p" -> Some(t)
            [] path = "q" -> None
            [] path = "o" -> o
            [] OTHER -> b] :
      t \in ATexts,
      o \in {None, Some(<<"a">>), Some(<<"b", "\n", "\n">>)},
      b \in {None, Some(<<"a">>), Some(<<"{{x}}", "\n">>)} }

\* No execute or try_execute is running.
ExecIdle ==
    [mode |-> "idle", i |-> 0, ctx |-> << >>, dry_run |-> FALSE,
     changed |-> << >>, applied |-> << >>, failed |-> << >>, res |-> "none"]

\* Nothing was applied yet.
NoApply ==
    [op |-> 0, before |-> None, ctx |-> << >>, dry_run |-> FALSE,
     res |-> "none", changed |-> FALSE, out |-> None]

\* Nothing has returned yet.
NoExec ==
    [mode |-> "idle", res |-> "none", changed |-> << >>, applied |-> << >>,
     failed |-> << >>]

AIdle ==
    /\ mtime = [path \in APaths |-> 0]
    /\ stdout = << >>
    /\ exec = ExecIdle
    /\ execs = 0
    /\ lastApply = NoApply
    /\ opLog = << >>
    /\ lastExec = NoExec

\* A plan as Cli::plan builds it, a new engine, and the files as they are
\* before the first template is read.
AInit ==
    /\ planOps \in APlans
    /\ planI = 0
    /\ engine = [n \in TemplateNames |-> None]
    /\ files \in AFiles
    /\ stdin \in {<<"{{x}}">>, <<"a", "\n">>}
    /\ ecCalls = [i \in 1..Len(planOps) |-> 0]
    /\ ecCached = [i \in 1..Len(planOps) |-> 0]
    /\ ecRaw = [i \in 1..Len(planOps) |-> None]
    /\ reads = 0
    /\ compiles = 0
    /\ lastRes = "none"
    /\ mtime = [path \in APaths |-> 0]
    /\ stdout = << >>
    /\ exec = ExecIdle
    /\ execs = 0
    /\ lastApply = NoApply
    /\ opLog = [i \in 1..Len(planOps) |-> << >>]
    /\ lastExec = NoExec

\* A call of execute or try_execute: the iterator is at the first operation.
ExecCall(mode, ctx, dry_run) ==
    /\ exec.mode = "idle"
    /\ planI = 0
    /\ execs < MaxExec
    /\ exec' = [ExecIdle EXCEPT !.mode = mode, !.i = 1, !.ctx = ctx,
                                !.dry_run = dry_run, !.res = "running"]
    /\ execs' = execs + 1
    /\ UNCHANGED <<tvars, mtime, stdout, lastApply, opLog, lastExec>>
    /\ UNCHANGED notA

\* Plan::execute is called.
PlanExecute(ctx, dry_run) == ExecCall("execute", ctx, dry_run)

\* Plan::try_execute is called.
PlanTryExecute(ctx, dry_run) == ExecCall("try_execute", ctx, dry_run)

\* An execute that gives up at the first error.
ExecuteGivesUp(res) == res = "ok"

\* execute: .map_err(|e| log::warn!(..)).unwrap_or(false), and on to the
\* next operation
ExecuteGoesOn(res) == TRUE

\* A try_execute that carries on after an error.
TryExecuteCarriesOn(res) == TRUE

\* try_execute: collect::<Result<Vec<_>>>()? stops at the first Err
TryExecuteGoesOn(res) == res = "ok"

\* The closure of filter_map on the operation the iterator is at: its
\* apply, and what becomes of the result.
ApplyStep(goesOn) ==
    LET i == exec.i
        r == ApplyOf(planOps[i], ApplyState, exec.ctx, exec.dry_run)
        c == EnsureCachedOf(planOps[i].source, ApplyState)
    IN  /\ planOps' = [planOps EXCEPT ![i] = r.op]
        /\ engine' = r.st.engine
        /\ files' = r.st.files
        /\ stdin' = r.st.stdin
        /\ reads' = r.st.reads
        /\ compiles' = r.st.compiles
        /\ mtime' = r.st.mtime
        /\ stdout' = r.st.stdout
        /\ lastRes' = c.res
        /\ ecCalls' = [ecCalls EXCEPT ![i] = @ + 1]
        /\ ecCached' = IF IsCached(r.op.source) /\ ~IsCached(planOps[i].source)
                       THEN [ecCached EXCEPT ![i] = @ + 1] ELSE ecCached
        /\ ecRaw' = IF c.raw = None THEN ecRaw ELSE [ecRaw EXCEPT ![i] = c.raw]
        /\ lastApply' = [op |-> i, before |-> Some(planOps[i]), ctx |-> exec.ctx,
                         dry_run |-> exec.dry_run, res |-> r.res,
                         changed |-> r.changed, out |-> r.out]
        /\ opLog' = [opLog EXCEPT ![i] = Append(@, lastApply')]
        /\ exec' = [exec EXCEPT
                      !.applied = Append(@, i),
                      !.changed = IF r.changed THEN Append(@, i) ELSE @,
                      !.failed = IF r.res # "ok" THEN Append(@, i) ELSE @,
                      !.i = IF goesOn THEN i + 1 ELSE @,
                      !.res = IF goesOn THEN @ ELSE r.res]
        /\ UNCHANGED <<planI, execs, lastExec>>

\* Plan::execute applies the next operation.
ExecuteStep ==
    /\ exec.mode = "execute"
    /\ exec.res = "running"
    /\ exec.i <= Len(planOps)
    /\ ApplyStep(ExecuteGoesOn(ApplyOf(planOps[exec.i], ApplyState,
                                       exec.ctx, exec.dry_run).res))
    /\ UNCHANGED notA

\* Plan::try_execute applies the next operation.
TryExecuteStep ==
    /\ exec.mode = "try_execute"
    /\ exec.res = "running"
    /\ exec.i <= Len(planOps)
    /\ ApplyStep(TryExecuteGoesOn(ApplyOf(planOps[exec.i], ApplyState,
                                          exec.ctx, exec.dry_run).res))
    /\ UNCHANGED notA

\* execute or try_execute returns: the operations that changed, or the
\* error of the operation try_execute stopped at.
ExecReturn ==
    /\ exec.mode # "idle"
    /\ exec.res # "running" \/ exec.i > Len(planOps)
    /\ lastExec' = [mode |-> exec.mode,
                    res |-> IF exec.res = "running" THEN "ok" ELSE exec.res,
                    changed |-> IF exec.res = "running" THEN exec.changed ELSE << >>,
                    applied |-> exec.applied,
                    failed |-> exec.failed]
    /\ exec' = ExecIdle
    /\ UNCHANGED <<tvars, mtime, stdout, execs, lastApply, opLog>>
    /\ UNCHANGED notA

ANext ==
    \/ \E ctx \in Contexts, dry_run \in BOOLEAN : PlanExecute(ctx, dry_run)
    \/ \E ctx \in Contexts, dry_run \in BOOLEAN : PlanTryExecute(ctx, dry_run)
    \/ ExecuteStep
    \/ TryExecuteStep
    \/ ExecReturn

(***************************************************************************)
(* OnReload (reload.rs): the action run after a reconciliation that        *)
(* changed a destination. A process name is a sequence of pieces, and one  *)
(* name contains another when the pieces of the other occur in it in a row.*)
(***************************************************************************)
SIGINT == "SIGINT"

\* The signals of a Signal action.
Signals == {"SIGHUP", "SIGUSR1"}

\* The parent of this process at its start, and the one that adopts it
\* when that parent is gone.
ParentPids == <<5, 1>>

\* The other processes of the system.
ProcessTable ==
    << [pid |-> 7, name |-> <<"nginx">>],
       [pid |-> 8, name |-> <<"nginx", "-worker">>],
       [pid |-> 9, name |-> <<"sshd">>] >>

\* OnReloadSignalTarget
PidTarget(pid) == <<"Pid", pid>>
ParentTarget == <<"Parent">>
ProcessName(name) == <<"ProcessName", name>>

\* OnReloadAction
NoAction == <<"None">>
ShellCommand(cmd) == <<"ShellCommand", cmd>>
Executable(executable) == <<"Executable", executable>>
Signal(signal, target) == <<"Signal", signal, target>>

SignalTargets == {PidTarget(7), ParentTarget, ProcessName(<<"nginx">>)}

ReloadActions ==
    {NoAction, ShellCommand("cmd"), Executable("exe")}
        \cup {Signal(sig, target) : sig \in Signals, target \in SignalTargets}

\* The lists of changed destinations execute is called with.
UpdatedFiles == {<<"o">>, <<"p", "o">>}

\* .intersperse(OsString::from(",")).collect()
RECURSIVE Intersperse(_)
Intersperse(paths) ==
    IF Len(paths) <= 1 THEN paths
    ELSE <<Head(paths), ",">> \o Intersperse(Tail(paths))

\* The state execute reads and writes.
ReloadState == [child |-> rChild, procs |-> rProcs, waited |-> rWaited, log |-> rLog]

\* The result of a step of execute.
ReloadResult(ok, st) == [ok |-> ok, st |-> st]

\* kill(pid, signal), which succeeds or not
Kill(st, pid, sig, ok) == [st EXCEPT !.log = Append(@, <<"kill", pid, sig, ok>>)]

\* A terminate_existing_child that drops the tracked child unsignalled.
ForgetExistingChild(st, gone) == ReloadResult(TRUE, [st EXCEPT !.child = None])

\* OnReload::terminate_existing_child: the child is taken from the slot,
\* sent SIGINT and handed to a task that waits for it. kill fails for the
\* pids of gone: processes that are no more, or that may not be signalled.
TerminateExistingChild(st, gone) ==
    IF st.child = None THEN ReloadResult(TRUE, st)
    ELSE LET pid == st.child[2]
             taken == [st EXCEPT !.child = None]
         IN  IF pid \notin gone
             THEN ReloadResult(TRUE, [Kill(taken, pid, SIGINT, TRUE)
                                         EXCEPT !.waited = @ \cup {pid}])
             ELSE ReloadResult(FALSE, Kill(taken, pid, SIGINT, FALSE))

\* The pid of the next process spawned.
NewPid(st) == 100 + Len(st.procs) + 1

\* let child = command.spawn()?
Spawn(st, argv, contemplated_files, spawnOk) ==
    IF ~spawnOk THEN ReloadResult(FALSE, st)
    ELSE ReloadResult(TRUE,
            [st EXCEPT !.procs = Append(@, [pid |-> NewPid(st), argv |-> argv,
                                            env |-> contemplated_files,
                                            status |-> "running"]),
                       !.log = Append(@, <<"spawn", NewPid(st)>>)])

\* sys.processes_by_name(name): the processes whose name contains it
Contains(name, part) ==
    \E k \in 0..(Len(name) - Len(part)) : SubSeq(name, k + 1, k + Len(part)) = part

\* A target resolved with the parent this process had at its start.
TargetPidsAtStart(target, ppid) ==
    CASE target[1] = "Pid" -> <<target[2]>>
      [] target[1] = "Parent" -> <<ParentPids[1]>>
      [] OTHER ->
            LET Named(i) == Contains(ProcessTable[i].name, target[2])
                matching == SelectSeq([i \in 1..Len(ProcessTable) |-> i], Named)
            IN  [k \in 1..Len(matching) |-> ProcessTable[matching[k]].pid]

\* match target { Pid(pid) .., Parent => Pid::parent(), ProcessName(name) .. }
TargetPids(target, ppid) ==
    CASE target[1] = "Pid" -> <<target[2]>>
      [] target[1] = "Parent" -> <<ppid>>
      [] OTHER ->
            LET Named(i) == Contains(ProcessTable[i].name, target[2])
                matching == SelectSeq([i \in 1..Len(ProcessTable) |-> i], Named)
            IN  [k \in 1..Len(matching) |-> ProcessTable[matching[k]].pid]

\* kill(pid, *signal)? for each pid in turn: the first kill that fails
\* ends the loop, the signals before it having been delivered.
RECURSIVE KillAll(_, _, _, _)
KillAll(st, pids, sig, gone) ==
    IF pids = << >> THEN ReloadResult(TRUE, st)
    ELSE IF Head(pids) \in gone
         THEN ReloadResult(FALSE, Kill(st, Head(pids), sig, FALSE))
         ELSE KillAll(Kill(st, Head(pids), sig, TRUE), Tail(pids), sig, gone)

\* The command execute spawns for an action.
Argv(action) ==
    IF action[1] = "ShellCommand" THEN <<"/bin/sh", "-c", action[2]>>
    ELSE <<action[2]>>

\* The processes a call of execute calls kill on, if it gets that far.
KillTargets(action, st, ppid) ==
    CASE action[1] = "None" -> {}
      [] action[1] \in {"ShellCommand", "Executable"} ->
            IF st.child = None THEN {} ELSE {st.child[2]}
      [] OTHER ->
            LET pids == TargetPids(action[3], ppid)
            IN  {pids[k] : k \in 1..Len(pids)}

\* OnReload::execute, from its call to its return with no step of another
\* call of it in between.
ExecuteOf(action, st, updated_files, ppid, spawnOk, gone) ==
    CASE action[1] = "None" -> ReloadResult(TRUE, st)
      [] action[1] \in {"ShellCommand", "Executable"} ->
            LET t == TerminateExistingChild(st, gone)
            IN  IF ~t.ok THEN t
                ELSE LET s == Spawn(t.st, Argv(action), Intersperse(updated_files),
                                    spawnOk)
                     IN  IF ~s.ok THEN s
                         ELSE ReloadResult(TRUE,
                                [s.st EXCEPT !.child = Some(NewPid(t.st))])
      [] OTHER -> KillAll(st, TargetPids(action[3], ppid), action[2], gone)

\* The callers of execute, which takes &self.
Tasks == 1..MaxTasks

\* A caller that is not inside execute.
TaskIdle == [pc |-> "idle", updated |-> << >>, pid |-> 0, sent |-> 0]

RIdle ==
    /\ rAction = NoAction
    /\ rChild = None
    /\ rProcs = << >>
    /\ rWaited = {}
    /\ rLog = << >>
    /\ rPpid = ParentPids[1]
    /\ rCalls = 0
    /\ rFailed = 0
    /\ rLast = [res |-> "none", updated |-> << >>, ppid |-> 0]
    /\ rTask = [t \in Tasks |-> TaskIdle]
    /\ rOverlapped = FALSE

\* OnReload::from(action): no child is tracked.
RInit ==
    /\ rAction \in ReloadActions
    /\ rChild = None
    /\ rProcs = << >>
    /\ rWaited = {}
    /\ rLog = << >>
    /\ rPpid = ParentPids[1]
    /\ rCalls = 0
    /\ rFailed = 0
    /\ rLast = [res |-> "none", updated |-> << >>, ppid |-> 0]
    /\ rTask = [t \in Tasks |-> TaskIdle]
    /\ rOverlapped = FALSE

\* Task t calls OnReload::execute. The None arm returns Ok(()). The arms
\* that spawn run terminate_existing_child, which holds the lock of the
\* child from taking it to handing it over, and go on if it succeeded. The
\* Signal arm goes on to its kills, which other threads may come between.
OnReloadExecute(t, updated_files, gone) ==
    /\ rCalls < MaxReloads
    /\ rTask[t].pc = "idle"
    /\ rCalls' = rCalls + 1
    /\ rOverlapped' = (rOverlapped \/ \E u \in Tasks : rTask[u].pc # "idle")
    /\ LET spawns == rAction[1] \in {"ShellCommand", "Executable"}
           r == IF spawns THEN TerminateExistingChild(ReloadState, gone)
                ELSE ReloadResult(TRUE, ReloadState)
       IN  /\ rChild' = r.st.child
           /\ rProcs' = r.st.procs
           /\ rWaited' = r.st.waited
           /\ rLog' = r.st.log
           /\ IF rAction[1] # "None" /\ r.ok
              THEN /\ rTask' = [rTask EXCEPT ![t] =
                                   [pc |-> IF spawns THEN "spawn" ELSE "kill",
                                    updated |-> updated_files,
                                    pid |-> 0, sent |-> 0]]
                   /\ UNCHANGED <<rFailed, rLast>>
              ELSE /\ rFailed' = IF r.ok THEN rFailed ELSE rFailed + 1
                   /\ rLast' = [res |-> IF r.ok THEN "ok" ELSE "err",
                                updated |-> updated_files, ppid |-> rPpid]
                   /\ UNCHANGED rTask
    /\ UNCHANGED <<rAction, rPpid>>
    /\ UNCHANGED notR

\* execute of task t, Signal arm: the next kill(pid, *signal)? of the
\* target, the parent being the one of this moment; a kill that fails
\* returns the error.
ExecuteKill(t, gone) ==
    /\ rTask[t].pc = "kill"
    /\ LET pids == TargetPids(rAction[3], rPpid) IN
        /\ rTask[t].sent < Len(pids)
        /\ LET r == KillAll(ReloadState, <<pids[rTask[t].sent + 1]>>, rAction[2], gone)
           IN  /\ rLog' = r.st.log
               /\ IF r.ok
                  THEN /\ rTask' = [rTask EXCEPT ![t].sent = @ + 1]
                       /\ UNCHANGED <<rFailed, rLast>>
                  ELSE /\ rTask' = [rTask EXCEPT ![t] = TaskIdle]
                       /\ rFailed' = rFailed + 1
                       /\ rLast' = [res |-> "err", updated |-> rTask[t].updated,
                                    ppid |-> rPpid]
    /\ UNCHANGED <<rAction, rChild, rProcs, rWaited, rPpid, rCalls, rOverlapped>>
    /\ UNCHANGED notR

\* execute of task t, Signal arm: every kill is done, Ok(()) is returned.
ExecuteReturn(t) ==
    /\ rTask[t].pc = "kill"
    /\ rTask[t].sent = Len(TargetPids(rAction[3], rPpid))
    /\ rTask' = [rTask EXCEPT ![t] = TaskIdle]
    /\ rLast' = [res |-> "ok", updated |-> rTask[t].updated, ppid |-> rPpid]
    /\ UNCHANGED <<rAction, rChild, rProcs, rWaited, rLog, rPpid, rCalls, rFailed,
                   rOverlapped>>
    /\ UNCHANGED notR

\* execute of task t: command.spawn()?, the lock of the child not held.
ExecuteSpawn(t, spawnOk) ==
    /\ rTask[t].pc = "spawn"
    /\ LET s == Spawn(ReloadState, Argv(rAction), Intersperse(rTask[t].updated),
                      spawnOk)
       IN  /\ rProcs' = s.st.procs
           /\ rLog' = s.st.log
           /\ IF s.ok
              THEN /\ rTask' = [rTask EXCEPT ![t].pc = "store",
                                             ![t].pid = NewPid(ReloadState)]
                   /\ UNCHANGED <<rFailed, rLast>>
              ELSE /\ rTask' = [rTask EXCEPT ![t] = TaskIdle]
                   /\ rFailed' = rFailed + 1
                   /\ rLast' = [res |-> "err", updated |-> rTask[t].updated,
                                ppid |-> rPpid]
    /\ UNCHANGED <<rAction, rChild, rWaited, rPpid, rCalls, rOverlapped>>
    /\ UNCHANGED notR

\* execute of task t: *self.child.lock().await = Some(child), whatever the
\* slot holds by now, and Ok(()) is returned.
ExecuteStore(t) ==
    /\ rTask[t].pc = "store"
    /\ rChild' = Some(rTask[t].pid)
    /\ rTask' = [rTask EXCEPT ![t] = TaskIdle]
    /\ rLast' = [res |-> "ok", updated |-> rTask[t].updated, ppid |-> rPpid]
    /\ UNCHANGED <<rAction, rProcs, rWaited, rLog, rPpid, rCalls, rFailed,
                   rOverlapped>>
    /\ UNCHANGED notR

\* A spawned process exits by itself or on a signal.
ChildExit(i) ==
    /\ rProcs[i].status = "running"
    /\ rProcs' = [rProcs EXCEPT ![i].status = "exited"]
    /\ UNCHANGED <<rAction, rChild, rWaited, rLog, rPpid, rCalls, rFailed, rLast,
                   rTask, rOverlapped>>
    /\ UNCHANGED notR

\* The parent of this process is gone.
Reparent ==
    /\ rPpid = ParentPids[1]
    /\ rPpid' = ParentPids[2]
    /\ UNCHANGED <<rAction, rChild, rProcs, rWaited, rLog, rCalls, rFailed, rLast,
                   rTask, rOverlapped>>
    /\ UNCHANGED notR

RNext ==
    \/ \E t \in Tasks, updated_files \in UpdatedFiles,
          gone \in SUBSET KillTargets(rAction, ReloadState, rPpid) :
          OnReloadExecute(t, updated_files, gone)
    \/ \E t \in Tasks, gone \in SUBSET KillTargets(rAction, ReloadState, rPpid) :
          ExecuteKill(t, gone)
    \/ \E t \in Tasks : ExecuteReturn(t)
    \/ \E t \in Tasks, spawnOk \in BOOLEAN : ExecuteSpawn(t, spawnOk)
    \/ \E t \in Tasks : ExecuteStore(t)
    \/ \E i \in 1..Len(rProcs) : ChildExit(i)
    \/ Reparent

(***************************************************************************)
(* The plan of the command line: Cli::new, Cli::validate and Cli::plan     *)
(* (cli.rs).                                                               *)
(***************************************************************************)
MaxInputs == 2
MaxTemplates == 2

\* The values --in-place leaves in the matches (enum InPlace).
InPlaceNo == <<"No">>
WithoutSuffix == <<"WithoutSuffix">>
WithSuffix(suffix) == <<"WithSuffix", suffix>>
InPlaceValues == {InPlaceNo, WithoutSuffix, WithSuffix("bak")}

\* InPlace::extension and bool::from(InPlace).
Extension(in_place) == IF in_place[1] = "WithSuffix" THEN Some(in_place[2]) ELSE None
IsInPlace(in_place) == in_place[1] # "No"

\* The paths of the command lines of the model; "-" is the dash of
\* from_path.
CliPaths == {"-", "p", "q"}
\* --output: absent, bare (default_missing_value "-") or with a path.
OutputValues == {None, Some("-"), Some("o")}
\* One occurrence of --template: INPUT, or INPUT OUTPUT.
Occurrences ==
    {<<"p">>, <<"-">>, <<"p", "o">>, <<"q", "o">>, <<"-", "-">>, <<"-", "q">>}

\* What try_get_matches_from_mut hands over: the template arguments and
\* --watch.
Matches == [in_place : InPlaceValues, output : OutputValues,
            input : SeqsUpTo(CliPaths, MaxInputs),
            template : SeqsUpTo(Occurrences, MaxTemplates),
            watch : BOOLEAN]

\* The conflicts_with declarations of command(): clap refuses a command
\* line that breaks one of them.
ClapAccepts(m) ==
    /\ ~(m.output # None /\ m.template # << >>)
    /\ ~(m.output # None /\ IsInPlace(m.in_place))
    /\ ~(m.template # << >> /\ m.input # << >>)

\* TemplateSource::from_path and TemplateDestination::from_path.
SourceFromPath(path) == IF path = "-" THEN StdIn ELSE FileSystem(path)
DestFromPath(path) == IF path = "-" THEN StdOut ELSE FileSystem(path)

\* TemplateOperation::new and TemplateOperation::stdio.
New(source, dest) == Op(source, dest, None)
Stdio == Op(StdIn, StdOut, None)

\* TemplateOperation::new_in_place, but dropping the backup extension.
NewInPlaceNoBackup(path, backup) ==
    New(SourceFromPath(path), DestFromPath(path))

\* TemplateOperation::new_in_place.
NewInPlace(path, backup) ==
    [New(SourceFromPath(path), DestFromPath(path)) EXCEPT !.backup = backup]

\* Cli::template_args.
TemplateArgs(m) ==
    [i \in 1..Len(m.template) |->
        LET occurrence == m.template[i] IN
        IF Len(occurrence) = 1
        THEN IF IsInPlace(m.in_place)
             THEN NewInPlace(occurrence[1], Extension(m.in_place))
             ELSE New(SourceFromPath(occurrence[1]), StdOut)
        ELSE New(SourceFromPath(occurrence[1]), DestFromPath(occurrence[2]))]

\* Cli::intput_output_args.
InputOutputArgs(m) ==
    IF m.input = << >>
    THEN IF m.output = None THEN << >>
         ELSE <<New(StdIn, DestFromPath(m.output[2]))>>
    ELSE LET output == IF m.output = None THEN "-" ELSE m.output[2] IN
         [i \in 1..Len(m.input) |->
            IF IsInPlace(m.in_place)
            THEN NewInPlace(m.input[i], Extension(m.in_place))
            ELSE New(SourceFromPath(m.input[i]), DestFromPath(output))]

\* Cli::plan.
CliPlan(m) ==
    LET ops == InputOutputArgs(m) \o TemplateArgs(m)
    IN  IF ops = << >> THEN <<Stdio>> ELSE ops

\* elements_are_unique, but never finding a duplicate.
ElementsAreUniqueAlways(iter) == TRUE

\* elements_are_unique.
ElementsAreUnique(iter) ==
    \A i \in 1..Len(iter) : \A j \in 1..(i - 1) : iter[j] # iter[i]

\* TemplateDestination::supports_notify, but true of every destination.
SupportsNotifyAlways(dest) == TRUE

\* TemplateDestination::supports_notify.
SupportsNotify(dest) == dest # StdOut

\* Cli::validate: "ok", or the error it returns.
Validate(m) ==
    LET plan == CliPlan(m)
        destinations == [i \in 1..Len(plan) |-> plan[i].dest]
        notify_unsupported == SelectSeq(plan, LAMBDA op : ~SupportsNotify(op.dest))
    IN  IF ~ElementsAreUnique(destinations) THEN "not_unique"
        ELSE IF m.watch /\ notify_unsupported # << >> THEN "no_notify"
        ELSE "ok"

PIdle ==
    /\ matches = None
    /\ clPc = "idle"
    /\ clPlan = None

PInit ==
    /\ matches \in {Some(m) : m \in Matches}
    /\ clPc = "args"
    /\ clPlan = None

\* Cli::new: clap's parse, then validate.
CliNew ==
    /\ clPc = "args"
    /\ clPc' = IF ~ClapAccepts(matches[2]) THEN "clap_error"
               ELSE IF Validate(matches[2]) # "ok" THEN Validate(matches[2])
               ELSE "valid"
    /\ UNCHANGED <<matches, clPlan>>
    /\ UNCHANGED notP

\* main: `let mut plan = cli.plan();`, which comes after Cli::new returned
\* Ok and before any template is read.
MainPlan ==
    /\ clPc = "valid"
    /\ clPlan' = Some(CliPlan(matches[2]))
    /\ clPc' = "planned"
    /\ UNCHANGED matches
    /\ UNCHANGED notP

PNext == CliNew \/ MainPlan

(***************************************************************************)
(* The program: main, run_oneshot and run_watch with its callback          *)
(* (main.rs), over one File data source and one unused cluster source.     *)
(***************************************************************************)
MaxEvents == 2

\* The command lines of the runs of the model: -t p o; -t - q -t p o; and
\* no template argument at all; each with and without --watch.
MainLines ==
    { << <<"p", "o">> >>, << <<"-", "q">>, <<"p", "o">> >>, << >> }

MainMatches ==
    {m \in Matches : /\ m.in_place = InPlaceNo
                     /\ m.output = None
                     /\ m.input = << >>
                     /\ m.template \in MainLines
                     /\ ClapAccepts(m)
                     /\ Validate(m) = "ok"}

\* What the File data source gives to x: a text, a text that is JSON, or
\* nothing the format's parser accepts.
DataValues == {Some(<<"a">>), Some(<<"1">>), None}

\* The file system at the start: the template p and no output yet.
MainFiles ==
    { [path \in APaths |-> IF path = "p" THEN Some(t) ELSE None] :
      t \in {<<"{{x}}", "\n">>, <<"{{x|from_json}}">>, <<"{%">>} }

MainActions == {ShellCommand("cmd"), Signal("SIGHUP", PidTarget(7))}

\* File::merge_to_figment, then extract(): a path whose extension names no
\* format is a Fatal error of as_figment; a file the parser rejects is an
\* error of extract.
SnapshotOf(ext_ok, data) ==
    IF ~ext_ok THEN [res |-> "fatal", ctx |-> << >>]
    ELSE IF data = None THEN [res |-> "extract_error", ctx |-> << >>]
    ELSE [res |-> "ok", ctx |-> data[2]]

\* Plan::ensure_cached: the operations in order, up to the first error.
RECURSIVE PlanEnsureCachedOf(_, _, _)
PlanEnsureCachedOf(plan, i, st) ==
    IF i > Len(plan) THEN [res |-> "ok", plan |-> plan, st |-> st]
    ELSE LET c == EnsureCachedOf(plan[i].source, st) IN
         IF c.res # "ok" THEN [res |-> c.res, plan |-> plan, st |-> c.st]
         ELSE PlanEnsureCachedOf([plan EXCEPT ![i].source = c.src], i + 1, c.st)

\* A main that goes on to watch whatever the one-shot pass returned.
AfterOneshotAnyway(res, watch) ==
    IF watch THEN "watch" ELSE "exit0"

\* main after run_oneshot: exit(1) on its error, else run_watch in watch
\* mode, else Ok(()).
AfterOneshot(res, watch) ==
    IF res # "ok" THEN "exit1"
    ELSE IF watch THEN "watch" ELSE "exit0"

\* A callback that unwraps the extraction as well.
CallbackUnwrapsAll(res) ==
    IF res = "ok" THEN "apply" ELSE "panicked"

\* The callback after as_figment().await.unwrap().extract(): the unwrap
\* panics on a Fatal error, an extraction error is logged and the callback
\* returns.
CallbackOn(res) ==
    CASE res = "fatal" -> "panicked"
      [] res = "extract_error" -> "recv"
      [] OTHER -> "apply"

\* No destination at all.
UpdatedFilesNone(plan, changed) == << >>

\* The destinations of every operation, changed or not.
UpdatedFilesAll(plan, changed) ==
    [k \in 1..Len(plan) |-> plan[k].dest[2]]

\* plan.execute(..).into_iter().map(|op| op.dest.path())
UpdatedFilesOf(plan, changed) ==
    [k \in 1..Len(changed) |-> plan[changed[k]].dest[2]]

\* A callback that reloads whatever was updated.
IsEmptyNever(updated_files) == FALSE

\* updated_files.is_empty()
IsEmpty(updated_files) == updated_files = << >>

\* What is known of one pass over the plan: the one-shot pass or one call of
\* the callback.
NewRun(kind) ==
    [kind |-> kind, snapshot |-> "none", recoverable |-> FALSE, ctx |-> << >>,
     results |-> << >>, changed |-> << >>, done |-> FALSE,
     reloads |-> 0, reload_ok |-> TRUE, updated |-> << >>, appliedAtReload |-> 0,
     spawned |-> 0, event |-> 0]

NoReload == [child |-> None, procs |-> << >>, waited |-> {}, log |-> << >>]

GIdle ==
    /\ gArgs = None
    /\ gPc = "idle"
    /\ gPlan = << >>
    /\ gSt = None
    /\ gData = None
    /\ gI = 0
    /\ gRuns = << >>
    /\ gWatcher = FALSE
    /\ gRegistered = 0
    /\ gEvents = 0
    /\ gSending = 0
    /\ gChan = 0
    /\ gRl = NoReload

\* main after Cli::new, cli.sources(), cli.plan() and Environment::new().
GInit ==
    /\ gArgs \in {[matches |-> m, dry_run |-> d, ext_ok |-> e, action |-> a] :
                    m \in MainMatches, d \in BOOLEAN, e \in BOOLEAN,
                    a \in MainActions}
    /\ gPc = "cache"
    /\ gPlan = CliPlan(gArgs.matches)
    /\ gSt \in {[engine |-> [n \in TemplateNames |-> None], files |-> f,
                 stdin |-> s, reads |-> 0, compiles |-> 0,
                 mtime |-> [path \in APaths |-> 0], stdout |-> << >>] :
                    f \in MainFiles, s \in {<<"{{x}}">>, <<"a", "\n">>}}
    /\ gData \in DataValues
    /\ gI = 0
    /\ gRuns = << >>
    /\ gWatcher = FALSE
    /\ gRegistered = 0
    /\ gEvents = 0
    /\ gSending = 0
    /\ gChan = 0
    /\ gRl = NoReload

\* The pass that is running, or ran last.
Cur == gRuns[Len(gRuns)]

SetCur(run) == [gRuns EXCEPT ![Len(gRuns)] = run]

\* main: plan.ensure_cached(&mut env), exit(1) on its error.
MainEnsureCached ==
    /\ gPc = "cache"
    /\ LET r == PlanEnsureCachedOf(gPlan, 1, gSt) IN
        /\ gPlan' = r.plan
        /\ gSt' = r.st
        /\ gPc' = IF r.res = "ok" THEN "snapshot1" ELSE "exit1"
    /\ UNCHANGED <<gArgs, gData, gI, gRuns, gWatcher, gRegistered, gEvents,
                   gSending, gChan, gRl>>
    /\ UNCHANGED notG

\* run_oneshot: runtime.block_on(sources.as_figment())?.extract()?, the
\* cluster source being available or not.
OneshotSnapshot(avail) ==
    /\ gPc = "snapshot1"
    /\ LET s == SnapshotOf(gArgs.ext_ok, gData)
           run == [NewRun("oneshot") EXCEPT !.snapshot = s.res, !.ctx = s.ctx,
                                            !.recoverable = ~avail,
                                            !.done = s.res # "ok"]
       IN  /\ gRuns' = Append(gRuns, run)
           /\ gPc' = IF s.res = "ok" THEN "apply1"
                      ELSE AfterOneshot(s.res, gArgs.matches.watch)
           /\ gI' = 1
    /\ UNCHANGED <<gArgs, gPlan, gSt, gData, gWatcher, gRegistered, gEvents,
                   gSending, gChan, gRl>>
    /\ UNCHANGED notG

\* The apply of the operation the pass is at, and the result noted.
ApplyNext(goesOn, stopPc) ==
    LET r == ApplyOf(gPlan[gI], gSt, Cur.ctx, gArgs.dry_run)
        result == IF r.res # "ok" THEN r.res
                  ELSE IF r.changed THEN "changed" ELSE "unchanged"
    IN  /\ gPlan' = [gPlan EXCEPT ![gI] = r.op]
        /\ gSt' = r.st
        /\ gRuns' = SetCur([Cur EXCEPT
                              !.results = Append(@, result),
                              !.changed = IF r.changed THEN Append(@, gI) ELSE @,
                              !.done = ~goesOn])
        /\ gI' = gI + 1
        /\ gPc' = IF goesOn THEN gPc ELSE stopPc

\* run_oneshot: one operation of plan.try_execute(..)?.
OneshotApply ==
    /\ gPc = "apply1"
    /\ gI <= Len(gPlan)
    /\ ApplyNext(TryExecuteGoesOn(ApplyOf(gPlan[gI], gSt, Cur.ctx, gArgs.dry_run).res),
                 AfterOneshot("err", gArgs.matches.watch))
    /\ UNCHANGED <<gArgs, gData, gWatcher, gRegistered, gEvents, gSending,
                   gChan, gRl>>
    /\ UNCHANGED notG

\* run_oneshot returns Ok(()), and main goes on.
OneshotReturn ==
    /\ gPc = "apply1"
    /\ gI > Len(gPlan)
    /\ gRuns' = SetCur([Cur EXCEPT !.done = TRUE])
    /\ gPc' = AfterOneshot("ok", gArgs.matches.watch)
    /\ UNCHANGED <<gArgs, gPlan, gSt, gData, gI, gWatcher, gRegistered,
                   gEvents, gSending, gChan, gRl>>
    /\ UNCHANGED notG

\* run_watch: sources.watch(..) registers the watcher of the File source,
\* which is created or not, and enters its loop.
RunWatch(created) ==
    /\ gPc = "watch"
    /\ gWatcher' = created
    /\ gRegistered' = gRegistered + 1
    /\ gPc' = "recv"
    /\ UNCHANGED <<gArgs, gPlan, gSt, gData, gI, gRuns, gEvents, gSending,
                   gChan, gRl>>
    /\ UNCHANGED notG

\* The data file is modified: it holds the value v, and the watcher, if
\* there is one and the process lives, calls notify for the event.
FileEvent(v) ==
    /\ gPc \notin {"idle", "exit0", "exit1", "panicked"}
    /\ gEvents < MaxEvents
    /\ gEvents' = gEvents + 1
    /\ gData' = v
    /\ gSending' = IF gWatcher THEN gSending + 1 ELSE gSending
    /\ UNCHANGED <<gArgs, gPc, gPlan, gSt, gI, gRuns, gWatcher, gRegistered,
                   gChan, gRl>>
    /\ UNCHANGED notG

\* Notifier::notify: blocking_send returns once the slot is free.
NotifySent ==
    /\ gSending > 0
    /\ gPc \notin {"exit0", "exit1", "panicked"}
    /\ LET r == Send(gChan, TRUE) IN
        /\ r.ready
        /\ gChan' = r.chan
    /\ gSending' = gSending - 1
    /\ UNCHANGED <<gArgs, gPc, gPlan, gSt, gData, gI, gRuns, gWatcher,
                   gRegistered, gEvents, gRl>>
    /\ UNCHANGED notG

\* The loop of watch: watch_rx.recv().await gives a notification and the
\* callback is called.
LoopRecv ==
    /\ gPc = "recv"
    /\ gChan > 0
    /\ gChan' = gChan - 1
    /\ gRuns' = Append(gRuns, [NewRun("watch") EXCEPT !.event = gEvents])
    /\ gPc' = "snapshot"
    /\ UNCHANGED <<gArgs, gPlan, gSt, gData, gI, gWatcher, gRegistered,
                   gEvents, gSending, gRl>>
    /\ UNCHANGED notG

\* The callback: sources.as_figment().await.unwrap().extract(), the cluster
\* source being available or not.
CallbackSnapshot(avail) ==
    /\ gPc = "snapshot"
    /\ LET s == SnapshotOf(gArgs.ext_ok, gData) IN
        /\ gRuns' = SetCur([Cur EXCEPT !.snapshot = s.res, !.ctx = s.ctx,
                                       !.recoverable = ~avail,
                                       !.done = CallbackOn(s.res) # "apply"])
        /\ gPc' = CallbackOn(s.res)
        /\ gI' = 1
    /\ UNCHANGED <<gArgs, gPlan, gSt, gData, gWatcher, gRegistered, gEvents,
                   gSending, gChan, gRl>>
    /\ UNCHANGED notG

\* The callback: one operation of plan.execute(..).
CallbackApply ==
    /\ gPc = "apply"
    /\ gI <= Len(gPlan)
    /\ ApplyNext(ExecuteGoesOn(ApplyOf(gPlan[gI], gSt, Cur.ctx, gArgs.dry_run).res),
                 "recv")
    /\ UNCHANGED <<gArgs, gData, gWatcher, gRegistered, gEvents, gSending,
                   gChan, gRl>>
    /\ UNCHANGED notG

\* The callback: execute has returned; with nothing updated it returns.
CallbackUpdated ==
    /\ gPc = "apply"
    /\ gI > Len(gPlan)
    /\ LET updated_files == UpdatedFilesOf(gPlan, Cur.changed) IN
        IF IsEmpty(updated_files)
        THEN /\ gRuns' = SetCur([Cur EXCEPT !.done = TRUE])
             /\ gPc' = "recv"
        ELSE /\ gRuns' = SetCur([Cur EXCEPT !.updated = updated_files])
             /\ gPc' = "reload"
    /\ UNCHANGED <<gArgs, gPlan, gSt, gData, gI, gWatcher, gRegistered,
                   gEvents, gSending, gChan, gRl>>
    /\ UNCHANGED notG

\* The callback: on_reload.lock().await.execute(updated_files).await, its
\* error logged; the callback returns. The lock of on_reload is held from
\* the call of execute to its return, and the loop runs one callback at a
\* time, so no other call of execute comes in between.
CallbackReload(spawnOk, gone) ==
    /\ gPc = "reload"
    /\ LET r == ExecuteOf(gArgs.action, gRl, Cur.updated, ParentPids[1],
                          spawnOk, gone)
       IN  /\ gRl' = r.st
           /\ gRuns' = SetCur([Cur EXCEPT
                                 !.reloads = @ + 1,
                                 !.reload_ok = r.ok,
                                 !.appliedAtReload = Len(Cur.results),
                                 !.spawned = IF Len(r.st.procs) > Len(gRl.procs)
                                             THEN Len(r.st.procs) ELSE 0,
                                 !.done = TRUE])
    /\ gPc' = "recv"
    /\ UNCHANGED <<gArgs, gPlan, gSt, gData, gI, gWatcher, gRegistered,
                   gEvents, gSending, gChan>>
    /\ UNCHANGED notG

GNext ==
    \/ MainEnsureCached
    \/ \E avail \in BOOLEAN : OneshotSnapshot(avail)
    \/ OneshotApply
    \/ OneshotReturn
    \/ \E created \in BOOLEAN : RunWatch(created)
    \/ \E v \in DataValues : FileEvent(v)
    \/ NotifySent
    \/ LoopRecv
    \/ \E avail \in BOOLEAN : CallbackSnapshot(avail)
    \/ CallbackApply
    \/ CallbackUpdated
    \/ \E spawnOk \in BOOLEAN,
          gone \in SUBSET KillTargets(gArgs.action, gRl, ParentPids[1]) :
          CallbackReload(spawnOk, gone)

\* The steps of the process itself, as against those of the file system.
GLoop ==
    \/ NotifySent
    \/ LoopRecv
    \/ \E avail \in BOOLEAN : CallbackSnapshot(avail)
    \/ CallbackApply
    \/ CallbackUpdated
    \/ \E spawnOk \in BOOLEAN,
          gone \in SUBSET KillTargets(gArgs.action, gRl, ParentPids[1]) :
          CallbackReload(spawnOk, gone)

(***************************************************************************)
(* The watcher of a source: Source::watch of Environment (the default of   *)
(* the trait), of File (file.rs) and of the cluster sources (k8s.rs), and  *)
(* what each does with the events handed to it.                            *)
(***************************************************************************)
\* How many events a watcher is handed.
MaxSourceEvents == 3

WatcherKinds == {"environment", "file", "configmap", "secret"}

ClusterKinds == {"configmap", "secret"}

\* notify::EventKind
EventKinds == {"any", "access", "create", "modify", "remove", "other"}

\* What the file watcher hands to its handler: Ok(event) or Err(error).
FileOk(kind) == <<"Ok", kind>>
FileErr == <<"Err">>
FileEvents == {FileOk(kind) : kind \in EventKinds} \cup {FileErr}

\* A handler that notifies for every event.
HandlerNotifiesAll(evt) == evt[1] = "Ok"

\* The handler File::watch gives to RecommendedWatcher::new: notify for
\* Create, Modify and Remove, a warning for an error.
HandlerNotifies(evt) ==
    evt[1] = "Ok" /\ evt[2] \in {"create", "modify", "remove"}

\* What Source::watch leaves of the Notifier: File keeps it in the handler,
\* and no event reaches the handler when watcher.watch(path) failed.
SourceWatchOutcome(kind, created, watched) ==
    IF WatchOutcome(kind, created) = "held" /\ kind = "file" /\ ~watched
    THEN "unwatched"
    ELSE WatchOutcome(kind, created)

\* The items of kube's watcher stream: an object applied, an object of a
\* list (the first list, or the one after a restart), a deletion, an error.
StreamKinds == {"apply", "init_apply", "delete", "error"}

\* .applied_objects(): the objects of Apply and InitApply events; errors
\* pass, everything else is skipped.
AppliedObjects(kind) ==
    CASE kind \in {"apply", "init_apply"} -> "object"
      [] kind = "error" -> "error"
      [] OTHER -> "skipped"

\* .predicate_filter(predicates::generation): an object passes when its
\* generation differs from the one seen last, when none was seen, and when
\* it has no generation to compare; errors pass.
PredicateFilter(item, cache, generation) ==
    IF item = "object"
    THEN IF generation = None
         THEN [emit |-> TRUE, cache |-> cache]
         ELSE [emit |-> cache # generation, cache |-> generation]
    ELSE [emit |-> item = "error", cache |-> cache]

\* The closure of for_each: a warning for an error, notify_async otherwise.
TaskNotifies(item) == item # "error"

\* The generation after the object's data was changed: the server counts
\* it up for an object that has one.
NextGeneration(generation) ==
    IF generation = None THEN None ELSE Some(generation[2] + 1)

SIdle ==
    /\ sKind = "environment"
    /\ sWatch = "none"
    /\ sGen = None
    /\ sCache = None
    /\ sLog = << >>

\* A source as Cli::sources built it, before SourceRegistry::watch; the
\* cluster object may or may not carry a generation.
SInit ==
    /\ sKind \in WatcherKinds
    /\ sWatch = "none"
    /\ sGen \in IF sKind \in ClusterKinds THEN {None, Some(1)} ELSE {None}
    /\ sCache = None
    /\ sLog = << >>

\* SourceRegistry::watch calls source.watch(Notifier).
SourceWatch(created, watched) ==
    /\ sWatch = "none"
    /\ sWatch' = SourceWatchOutcome(sKind, created, watched)
    /\ UNCHANGED <<sKind, sGen, sCache, sLog>>
    /\ UNCHANGED notS

\* The file watcher calls its handler.
FileWatcherEvent(evt) ==
    /\ sKind = "file"
    /\ sWatch = "held"
    /\ Len(sLog) < MaxSourceEvents
    /\ sLog' = Append(sLog, [evt |-> evt, notified |-> HandlerNotifies(evt)])
    /\ UNCHANGED <<sKind, sWatch, sGen, sCache>>
    /\ UNCHANGED notS

\* An item of the watcher stream goes through applied_objects and the
\* predicate filter to the closure of for_each. The stream begins with a
\* list; altered tells whether the object's data was changed.
StreamItem(kind, altered) ==
    /\ sKind \in ClusterKinds
    /\ sWatch = "held"
    /\ Len(sLog) < MaxSourceEvents
    /\ kind = "apply" => \E k \in 1..Len(sLog) : sLog[k].evt = "init_apply"
    /\ LET generation == IF altered THEN NextGeneration(sGen) ELSE sGen
           item == AppliedObjects(kind)
           f == PredicateFilter(item, sCache, generation)
       IN  /\ sGen' = generation
           /\ sCache' = f.cache
           /\ sLog' = Append(sLog, [evt |-> kind, altered |-> altered,
                                    notified |-> f.emit /\ TaskNotifies(item)])
    /\ UNCHANGED <<sKind, sWatch>>
    /\ UNCHANGED notS

\* The object's data is changed on the cluster.
ObjectModified == StreamItem("apply", TRUE)

\* The watcher lists the object: at its start, and after a restart.
ObjectListed == StreamItem("init_apply", FALSE)

\* The object is deleted.
ObjectDeleted == StreamItem("delete", TRUE)

\* The watch request fails.
StreamError == StreamItem("error", FALSE)

SNext ==
    \/ \E created \in BOOLEAN, watched \in BOOLEAN : SourceWatch(created, watched)
    \/ \E evt \in FileEvents : FileWatcherEvent(evt)
    \/ ObjectModified
    \/ ObjectListed
    \/ ObjectDeleted
    \/ StreamError

ReloadInit == RInit /\ WIdle /\ MIdle /\ CIdle /\ TIdle /\ AIdle /\ PIdle /\ GIdle /\ SIdle

ReloadSpec == ReloadInit /\ [][RNext]_vars

PlanInit == PInit /\ WIdle /\ MIdle /\ CIdle /\ TIdle /\ AIdle /\ RIdle /\ GIdle /\ SIdle

PlanSpec == PlanInit /\ [][PNext]_vars

MainInit == GInit /\ WIdle /\ MIdle /\ CIdle /\ TIdle /\ AIdle /\ RIdle /\ PIdle /\ SIdle

MainSpec == MainInit /\ [][GNext]_vars

\* The watch loop and the callback run on the runtime run_watch blocks on,
\* and a notify call on the watcher's thread: each goes on when it can.
MainFairSpec == MainSpec /\ WF_vars(GLoop)

ApplyInit == AInit /\ WIdle /\ MIdle /\ CIdle /\ RIdle /\ PIdle /\ GIdle /\ SIdle

ApplySpec == ApplyInit /\ [][ANext]_vars

TplInit == TInit /\ WIdle /\ MIdle /\ CIdle /\ AIdle /\ RIdle /\ PIdle /\ GIdle /\ SIdle

TplSpec == TplInit /\ [][TNext]_vars

CliInit == CInit /\ WIdle /\ MIdle /\ TIdle /\ AIdle /\ RIdle /\ PIdle /\ GIdle /\ SIdle

CliSpec == CliInit /\ [][CNext]_vars

MergeInit == MInit /\ WIdle /\ CIdle /\ TIdle /\ AIdle /\ RIdle /\ PIdle /\ GIdle /\ SIdle

MergeSpec == MergeInit /\ [][MNext]_vars

SourceInit == SInit /\ WIdle /\ MIdle /\ CIdle /\ TIdle /\ AIdle /\ RIdle /\ PIdle /\ GIdle

SourceSpec == SourceInit /\ [][SNext]_vars

WatchInit == WInit /\ MIdle /\ CIdle /\ TIdle /\ AIdle /\ RIdle /\ PIdle /\ GIdle /\ SIdle

WatchSpec == WatchInit /\ [][WNext]_vars

\* The watch call runs on the runtime's main task (block_on); the callback's
\* steps are awaited source reads, plan execution and a process spawn.
WatchFairSpec ==
    /\ WatchSpec
    /\ WF_vars(\E created \in BOOLEAN : WatchRegister(created))
    /\ WF_vars(WatchRecv)
    /\ WF_vars(\E k \in 1..MaxCycles, o \in {"ok", "extract_error", "fatal"} : CbSnapshot(k, o))
    /\ WF_vars(\E k \in 1..MaxCycles, u \in BOOLEAN : CbExecute(k, u))
    /\ WF_vars(\E k \in 1..MaxCycles : CbReload(k))

(***************************************************************************)
(* Claims about the watched registry.                                      *)
(***************************************************************************)

\* C1: reconciliation cycles are serialized: at no time are two invocations
\* of the onChange callback (snapshot read, Plan.execute, reload execute) in
\* progress together, and the loop is inside the callback while one is.
C1_Serialized ==
    /\ Cardinality(cbActive) <= 1
    /\ cbActive # {} => pc = "cb"

\* A second reconciliation runs after the first returned, while a source is
\* inside notify.
C1_Witness ==
    /\ cbPhase[1] = "done"
    /\ cbPhase[2] \in ActivePhases
    /\ \E s \in Sources : sender[s] = "sending"

\* C2: the watch channel holds at most one pending notification.
C2_SingleSlot == chan <= 1

\* One notification is pending while two sources are inside notify.
C2_Witness ==
    /\ chan = 1
    /\ Cardinality({s \in Sources : sender[s] = "sending"}) = 2

\* C3: a notify call made while a notification is pending returns only
\* once the slot is free, and then by queueing its own notification; while
\* the loop is alive every completed notify call is either still queued or
\* has started exactly one callback, and the n-th completed call leads to
\* the n-th callback.
C3_NotifyMatched ==
    /\ [](pc \in Running => completed = cbStarted + chan)
    /\ [][\A s \in Sources :
            (sender[s] = "sending" /\ sender'[s] = "idle" /\ RxAlive)
                => (chan = 0 /\ chan' = 1)]_vars
    /\ \A n \in 1..MaxNotify :
            (completed = n /\ pc \in Running) ~> (cbStarted >= n \/ pc \notin Running)

\* Three notify calls completed, two callbacks started, the third
\* notification pending and a fourth call waiting for the slot.
C3_Witness ==
    /\ completed = 3
    /\ cbStarted = 2
    /\ chan = 1
    /\ pc \in Running
    /\ \E s \in Sources : sender[s] = "sending"

\* C4 as stated: three notifications issued while the first reconciliation
\* (started by the only other notification) is in progress lead to at most
\* one further reconciliation.
C4_Debounce == (outside = 1 /\ during = 3) => cbStarted <= 2

\* C4 amended: three notifications issued while the first reconciliation is
\* in progress lead to at most three further reconciliations, one for each
\* notification.
C4_OnePerNotification == (outside = 1 /\ during = 3) => cbStarted <= 4

\* The three notifications issued during the first reconciliation have each
\* started a reconciliation of their own.
C4_Witness == outside = 1 /\ during = 3 /\ cbStarted = 4

\* C5: no source is asked to watch twice; the first watch call takes the
\* receiver, and every later call panics without registering a watcher.
C5_WatchOnce ==
    /\ [](\A s \in Sources : watchCount[s] <= 1)
    /\ [](calls >= 1 => watch_rx = "none")
    /\ [][(calls >= 1 /\ calls' = calls + 1)
            => (pc' = "panicked" /\ watchCount' = watchCount /\ notifier' = notifier)]_vars

\* A second watch call has panicked on a registry whose sources were
\* registered by the first.
C5_Witness ==
    /\ calls = 2
    /\ pc = "panicked"
    /\ \E s \in Sources : watchCount[s] = 1 /\ notifier[s] = "held"

\* C6 as stated: once every Notifier handed to a source has been dropped
\* by it and the queue is empty, recv in the loop can return (the closed
\* indication), so that watch returns.
C6_LoopTerminates ==
    (/\ pc = "recv"
     /\ chan = 0
     /\ Sources # {}
     /\ \A s \in Sources : notifier[s] = "dropped")
        => ENABLED WatchRecv

(***************************************************************************)
(* Claims about as_figment and the merge of layers.                        *)
(***************************************************************************)
\* The layers of the sources among the first n that did not fail, in order.
OkLayers(n) ==
    LET ok == SelectSeq(SubSeq(figSrc, 1, n), LAMBDA r : r.res = "ok")
    IN  [j \in 1..Len(ok) |-> ok[j].layer]

RECURSIVE MergeAll(_)
\* The in-order merge of a sequence of layers.
MergeAll(ls) ==
    IF Len(ls) = 0 THEN EmptyDict
    ELSE Merge(MergeAll(SubSeq(ls, 1, Len(ls) - 1)), ls[Len(ls)])

\* C7: as_figment consults the sources in registration order; a source with
\* a Recoverable error leaves the accumulator as it was; the first Fatal
\* error ends the assembly with that error and no later source is consulted;
\* on success the result is the in-order merge of the layers of exactly the
\* sources that did not fail.
C7_FailurePolicy ==
    /\ \A j \in 1..Len(figSeen) : figSeen[j] = j
    /\ figStatus \in {"running", "ok"} =>
        /\ \A j \in 1..Len(figSeen) : figSrc[j].res # "fatal"
        /\ figAcc = MergeAll(OkLayers(Len(figSeen)))
        /\ figErr = 0
    /\ figStatus = "ok" => Len(figSeen) = Len(figSrc)
    /\ figStatus = "fatal" =>
        /\ Len(figSeen) >= 1
        /\ figErr = Len(figSeen)
        /\ figSrc[figErr].res = "fatal"
        /\ \A j \in 1..(figErr - 1) : figSrc[j].res # "fatal"

\* An assembly that succeeded past a Recoverable source in the middle: the
\* result is the merge of the first and the third layer.
C7_Witness ==
    /\ figStatus = "ok"
    /\ Len(figSrc) = 3
    /\ figSrc[1] = [res |-> "ok", layer |-> [a |-> Dict([x |-> Num(1), y |-> Num(2)])]]
    /\ figSrc[2].res = "recoverable"
    /\ figSrc[3] = [res |-> "ok", layer |-> [a |-> Dict([y |-> Num(3), z |-> Num(4)])]]
    /\ figAcc = [a |-> Dict([x |-> Num(1), y |-> Num(3), z |-> Num(4)])]

RECURSIVE RightBiased(_, _, _)
\* r is layer b laid over a: a key of both whose two values are trees is
\* merged recursively, any other key of b has b's value, and a key of a
\* alone keeps a's.
RightBiased(r, a, b) ==
    /\ DOMAIN r = DOMAIN a \cup DOMAIN b
    /\ \A k \in DOMAIN r :
        IF k \in DOMAIN a /\ k \in DOMAIN b
        THEN IF IsDict(a[k]) /\ IsDict(b[k])
             THEN IsDict(r[k]) /\ RightBiased(r[k][2], a[k][2], b[k][2])
             ELSE r[k] = b[k]
        ELSE IF k \in DOMAIN b THEN r[k] = b[k] ELSE r[k] = a[k]

\* C8: whenever a source's layer has been merged in, the accumulator is that
\* layer laid right-biased over the accumulator before it, recursing only
\* into trees; sequences are replaced. The two examples of the claim give
\* {a:{x:1,y:3,z:4}} and {a:[3]}.
C8_RightBiased ==
    LET n == Len(figSeen) IN
    (n >= 1 /\ figStatus # "fatal" /\ figSrc[n].res = "ok") =>
        /\ RightBiased(figAcc, MergeAll(OkLayers(n - 1)), figSrc[n].layer)
        /\ (/\ n = 2
            /\ figSrc[1] = [res |-> "ok", layer |-> [a |-> Dict([x |-> Num(1), y |-> Num(2)])]]
            /\ figSrc[2].layer = [a |-> Dict([y |-> Num(3), z |-> Num(4)])])
                => figAcc = [a |-> Dict([x |-> Num(1), y |-> Num(3), z |-> Num(4)])]
        /\ (/\ n = 2
            /\ figSrc[1] = [res |-> "ok", layer |-> [a |-> Arr(<<1, 2>>)]]
            /\ figSrc[2].layer = [a |-> Arr(<<3>>)])
                => figAcc = [a |-> Arr(<<3>>)]

\* Two layers whose trees under b differ at depth three have been merged:
\* b.x holds the keys of both, b.y is the later layer's sequence.
C8_Witness ==
    /\ Len(figSeen) = 2
    /\ figSrc[1] = [res |-> "ok", layer |-> [b |-> Dict([x |-> Dict([p |-> Num(1)]), y |-> Num(5)])]]
    /\ figSrc[2] = [res |-> "ok", layer |-> [b |-> Dict([x |-> Dict([q |-> Num(2)]), y |-> Arr(<<1>>)])]]
    /\ figAcc = [b |-> Dict([x |-> Dict([p |-> Num(1), q |-> Num(2)]), y |-> Arr(<<1>>)])]

(***************************************************************************)
(* Claims about Cli::sources.                                              *)
(***************************************************************************)
\* C9: the registry lists the sources of CONTEMPLATE_DATASOURCES in their
\* comma-separated order, and then the command line's sources in the order
\* in which their flags appeared, whatever their types.
C9_SourceOrder ==
    cliPc = "built" =>
        /\ Len(cliReg) = Len(cliEnvSpecs) + Len(cliArgs)
        /\ \A j \in 1..Len(cliEnvSpecs) :
              cliReg[j] = GetSourceFromSpec(cliEnvSpecs[j].type, cliEnvSpecs[j].arg)
        /\ \A i \in 1..Len(cliArgs) :
              cliReg[Len(cliEnvSpecs) + i] =
                  GetSourceFromSpec(cliArgs[i].type,
                                    IF cliArgs[i].val = None THEN Some(<< >>) ELSE cliArgs[i].val)

\* `-f A -e -f B` with CONTEMPLATE_DATASOURCES=file:E gave File(E), File(A),
\* Environment, File(B).
C9_Witness ==
    /\ cliPc = "built"
    /\ cliEnv = Some(<<"file", ":", "E">>)
    /\ cliArgs = << [type |-> "file", val |-> Some(<<"A">>)],
                    [type |-> "environment", val |-> None],
                    [type |-> "file", val |-> Some(<<"B">>)] >>
    /\ cliReg = << [kind |-> "file", arg |-> Some(<<"E">>)],
                   [kind |-> "file", arg |-> Some(<<"A">>)],
                   [kind |-> "environment", arg |-> None],
                   [kind |-> "file", arg |-> Some(<<"B">>)] >>

(***************************************************************************)
(* Claims about TemplateSource.                                            *)
(***************************************************************************)
\* C10: a source becomes Cached at most once, by a successful ensure_cached
\* that records whether the raw text it read (the file's, or what was on
\* standard input) ended in a newline; an ensure_cached on a Cached source
\* reads nothing, compiles nothing and changes neither the source nor the
\* engine; a Cached source stays as it is.
C10_CachedOnce ==
    /\ [](\A i \in 1..Len(planOps) :
            /\ ecCached[i] <= 1
            /\ IsCached(planOps[i].source) <=> ecCached[i] = 1
            /\ IsCached(planOps[i].source) =>
                /\ ecRaw[i] # None
                /\ planOps[i].source[3] = ContainsTrailingNewline(ecRaw[i][2])
                /\ IF planOps[i].source[2] = "-"
                   THEN TRUE
                   ELSE ecRaw[i] = files[planOps[i].source[2]])
    /\ [][\A i \in 1..Len(planOps) :
            (IsCached(planOps[i].source) /\ ecCalls'[i] = ecCalls[i] + 1)
                => (/\ lastRes' = "ok"
                    /\ UNCHANGED <<planOps, engine, files, stdin, reads, compiles>>)]_vars
    /\ [][\A i \in 1..Len(planOps) :
            IsCached(planOps[i].source) => planOps'[i].source = planOps[i].source]_vars
    /\ [][\A i \in 1..Len(planOps) :
            (~IsCached(planOps[i].source) /\ IsCached(planOps'[i].source))
                => (lastRes' = "ok" /\ ecCalls'[i] = ecCalls[i] + 1
                    /\ reads' = reads + 1 /\ compiles' = compiles + 1)]_vars
    /\ [][\A i \in 1..Len(planOps) :
            (~IsCached(planOps[i].source) /\ ecCalls'[i] = ecCalls[i] + 1
                /\ lastRes' = "ok")
                => IsCached(planOps'[i].source)]_vars

\* A file source whose text ends in a newline was cached by the first
\* ensure_cached, and a second ensure_cached on it has returned: one read,
\* one compilation.
C10_Witness ==
    /\ Len(planOps) = 1
    /\ planOps[1].source = Cached("p", TRUE)
    /\ ecCalls[1] = 2
    /\ reads = 1
    /\ compiles = 1
    /\ engine["p"] = Some(<<"a", "\n">>)

(***************************************************************************)
(* Claims about TemplateOperation::apply and the execution of a plan.      *)
(***************************************************************************)
\* This step is an apply of operation i.
Applied(i) == exec'.applied = Append(exec.applied, i)

\* This step is an apply of operation i that was not a dry run and
\* returned Ok.
Wrote(i) == Applied(i) /\ ~lastApply'.dry_run /\ lastApply'.res = "ok"

\* The context of the latest apply in the log that was not a dry run and
\* returned Ok, if there is one.
RECURSIVE PrevWet(_)
PrevWet(log) ==
    IF log = << >> THEN None
    ELSE IF ~log[Len(log)].dry_run /\ log[Len(log)].res = "ok"
    THEN Some(log[Len(log)].ctx)
    ELSE PrevWet(SubSeq(log, 1, Len(log) - 1))

\* C11: an apply that is not a dry run and renders exactly what a file
\* destination holds reports changed = false and leaves the destination's
\* content and modification time as they were; and an apply after an
\* earlier successful one with the same context reports changed = false.
C11_IdempotentWrite ==
    /\ [][\A i \in 1..Len(planOps) :
            (Wrote(i) /\ planOps[i].dest[1] = "FileSystem"
                /\ files[planOps[i].dest[2]] = lastApply'.out)
                => (/\ ~lastApply'.changed
                    /\ files'[planOps[i].dest[2]] = files[planOps[i].dest[2]]
                    /\ mtime'[planOps[i].dest[2]] = mtime[planOps[i].dest[2]])]_vars
    /\ [][\A i \in 1..Len(planOps) :
            (Wrote(i) /\ planOps[i].dest[1] = "FileSystem"
                /\ PrevWet(opLog[i]) = Some(lastApply'.ctx))
                => (/\ ~lastApply'.changed
                    /\ files'[planOps[i].dest[2]] = files[planOps[i].dest[2]]
                    /\ mtime'[planOps[i].dest[2]] = mtime[planOps[i].dest[2]])]_vars

\* The second apply of p -> o with the same context found in o the text
\* the first one wrote, and reported no change.
C11_Witness ==
    /\ planOps[1].dest = FileSystem("o")
    /\ Len(opLog[1]) = 2
    /\ opLog[1][1].res = "ok" /\ ~opLog[1][1].dry_run /\ opLog[1][1].changed
    /\ opLog[1][2].res = "ok" /\ ~opLog[1][2].dry_run /\ ~opLog[1][2].changed
    /\ opLog[1][2].ctx = opLog[1][1].ctx
    /\ files["o"] = Some(<<"b", "\n", "\n">>)
    /\ mtime["o"] = 1

\* The text an apply of the operation op renders: the one in the engine
\* when the source is cached, else the one it is about to read.
TextOf(op) ==
    IF IsCached(op.source) THEN engine[op.source[2]]
    ELSE IF op.source = StdIn THEN Some(stdin)
    ELSE files[op.source[2]]

\* C12: a dry-run apply leaves every file (the backup and the destination
\* among them) absent or with its content and modification time, writes
\* nothing to standard output and keeps the backup extension; it still
\* compiles and renders, and fails with a template error exactly when the
\* template does not compile or render.
C12_DryRunFrame ==
    [][\A i \in 1..Len(planOps) :
          (Applied(i) /\ lastApply'.dry_run)
              => (/\ files' = files
                  /\ mtime' = mtime
                  /\ stdout' = stdout
                  /\ planOps'[i].backup = planOps[i].backup
                  /\ planOps'[i].dest = planOps[i].dest
                  /\ TextOf(planOps[i]) # None
                        => (lastApply'.res = "template_error"
                              <=> ~(Compiles(TextOf(planOps[i])[2])
                                      /\ Renders(TextOf(planOps[i])[2],
                                                 lastApply'.ctx))))]_vars

\* A dry run of the in-place operation with a backup extension rendered a
\* text that is not the one in p: there is no backup and p was not written.
C12_Witness ==
    /\ lastApply.op = 1
    /\ lastApply.dry_run
    /\ lastApply.res = "ok"
    /\ planOps[1].dest = FileSystem("p")
    /\ planOps[1].backup = Some("bak")
    /\ lastApply.out # files["p"]
    /\ files["p.bak"] = None
    /\ mtime["p"] = 0

\* C13 as stated: a dry-run apply returns true exactly when the rendered
\* text differs from what the destination holds.
C13_DryRunReports ==
    [][\A i \in 1..Len(planOps) :
          (Applied(i) /\ lastApply'.dry_run /\ lastApply'.res = "ok"
              /\ planOps[i].dest[1] = "FileSystem")
              => (lastApply'.changed
                    <=> files[planOps[i].dest[2]] # lastApply'.out)]_vars

\* C13: a dry-run apply returns false, whether or not the rendered text
\* differs from what the destination holds.
C13_DryRunFalse ==
    [][\A i \in 1..Len(planOps) :
          (Applied(i) /\ lastApply'.dry_run) => ~lastApply'.changed]_vars

\* A dry run rendered for o a text that o does not hold, and returned false.
C13_Witness ==
    /\ lastApply.op # 0
    /\ lastApply.dry_run
    /\ lastApply.res = "ok"
    /\ ~lastApply.changed
    /\ planOps[lastApply.op].dest = FileSystem("o")
    /\ files["o"] # None
    /\ files["o"] # lastApply.out

\* The operation op has a backup extension and a source that is a file,
\* and the file at the backup path differs from the source file.
BackupCollides(op) ==
    /\ op.backup # None
    /\ SourcePath(op.source) # None
    /\ SourcePath(op.source)[2] \in DOMAIN files
    /\ files[SourcePath(op.source)[2]] # None
    /\ BackupPath(SourcePath(op.source)[2], op.backup[2]) \in DOMAIN files
    /\ files[BackupPath(SourcePath(op.source)[2], op.backup[2])] # None
    /\ files[BackupPath(SourcePath(op.source)[2], op.backup[2])]
          # files[SourcePath(op.source)[2]]

\* C14: an apply that is not a dry run, of an operation with a backup
\* extension whose backup file exists and differs from the source file,
\* fails and leaves every file (source, backup and destination) and
\* standard output as they were; it fails with the backup collision error
\* when its template compiles and renders.
C14_BackupSafety ==
    [][\A i \in 1..Len(planOps) :
          (Applied(i) /\ ~lastApply'.dry_run /\ BackupCollides(planOps[i]))
              => (/\ lastApply'.res # "ok"
                  /\ ~lastApply'.changed
                  /\ files' = files
                  /\ mtime' = mtime
                  /\ stdout' = stdout
                  /\ (Compiles(TextOf(planOps[i])[2])
                        /\ Renders(TextOf(planOps[i])[2], lastApply'.ctx))
                        => lastApply'.res = "backup_would_be_overwritten")]_vars

\* The in-place apply of p with the extension bak met a p.bak that differs
\* from p and failed; p and p.bak are as they were.
C14_Witness ==
    /\ lastApply.op = 1
    /\ lastApply.res = "backup_would_be_overwritten"
    /\ lastApply.before = Some(Op(FileSystem("p"), FileSystem("p"), Some("bak")))
    /\ files["p"] = Some(<<"{{x}}">>)
    /\ files["p.bak"] = Some(<<"a">>)
    /\ mtime["p"] = 0
    /\ mtime["p.bak"] = 0

\* The operation op has a backup extension and a source file, and the
\* backup path is free or holds what the source file holds.
BackupDue(op) ==
    /\ op.backup # None
    /\ SourcePath(op.source) # None
    /\ SourcePath(op.source)[2] \in DOMAIN files
    /\ files[SourcePath(op.source)[2]] # None
    /\ BackupPath(SourcePath(op.source)[2], op.backup[2]) \in DOMAIN files
    /\ files[BackupPath(SourcePath(op.source)[2], op.backup[2])]
          \in {None, files[SourcePath(op.source)[2]]}

\* C15: after a successful apply that is not a dry run, of an operation
\* with a backup extension whose backup path was free or held the source's
\* content, the file <source>.<extension> holds what the source file held
\* before the apply, also when the apply wrote the source file itself.
C15_BackupFirst ==
    [][\A i \in 1..Len(planOps) :
          (Wrote(i) /\ BackupDue(planOps[i]))
              => (/\ files'[BackupPath(SourcePath(planOps[i].source)[2],
                                       planOps[i].backup[2])]
                        = files[SourcePath(planOps[i].source)[2]]
                  /\ mtime'[BackupPath(SourcePath(planOps[i].source)[2],
                                       planOps[i].backup[2])]
                        = mtime[BackupPath(SourcePath(planOps[i].source)[2],
                                           planOps[i].backup[2])] + 1)]_vars

\* The in-place apply of p with the extension bak rewrote p, and p.bak
\* holds the template p held before.
C15_Witness ==
    /\ lastApply.op = 1
    /\ lastApply.res = "ok"
    /\ lastApply.changed
    /\ lastApply.before = Some(Op(FileSystem("p"), FileSystem("p"), Some("bak")))
    /\ files["p"] = Some(<<"b", "\n", "\n">>)
    /\ files["p.bak"] = Some(<<"{{x}}", "\n">>)
    /\ mtime["p.bak"] = 1

\* C16 as stated: the output of an apply ends in a newline exactly when
\* the text of its source does.
C16_NewlineAsSource ==
    [][\A i \in 1..Len(planOps) :
          (Applied(i) /\ lastApply'.out # None)
              => (ContainsTrailingNewline(lastApply'.out[2])
                    <=> ContainsTrailingNewline(ecRaw'[i][2]))]_vars

\* C16: when the text of the source ends in a newline the output of apply
\* ends in a newline; when it does not, the output is the rendering with
\* nothing appended, so it ends in a newline only when the rendering does.
C16_NewlineKept ==
    [][\A i \in 1..Len(planOps) :
          (Applied(i) /\ lastApply'.out # None)
              => IF ContainsTrailingNewline(ecRaw'[i][2])
                 THEN ContainsTrailingNewline(lastApply'.out[2])
                 ELSE lastApply'.out[2]
                        = Render(engine'[planOps'[i].source[2]][2], lastApply'.ctx)]_vars

\* The template {{x}}, which has no trailing newline, was rendered with a
\* value of x that ends in a newline, and so does the output.
C16_Witness ==
    /\ lastApply.op # 0
    /\ lastApply.ctx = <<"b", "\n">>
    /\ ecRaw[lastApply.op] = Some(<<"{{x}}">>)
    /\ lastApply.out = Some(<<"b", "\n">>)

\* The operations of the plan, in plan order.
PlanOrder == [i \in 1..Len(planOps) |-> i]

\* The latest apply of operation i.
LastOf(i) == opLog[i][Len(opLog[i])]

\* The operations among the first n whose latest apply returned
\* changed = true, in plan order.
ChangedUpTo(n) ==
    LET Changed(i) == LastOf(i).res = "ok" /\ LastOf(i).changed
    IN  SelectSeq(SubSeq(PlanOrder, 1, n), Changed)

\* The operations whose latest apply failed, in plan order.
FailedNow ==
    LET Failed(i) == LastOf(i).res # "ok"
    IN  SelectSeq(PlanOrder, Failed)

\* C17: when execute has returned, it has applied every operation of the
\* plan once, in plan order, whichever of them failed, and it has returned
\* exactly the operations whose apply returned changed = true, in plan
\* order; an operation that failed is not among them.
C17_ExecuteBestEffort ==
    (lastExec.mode = "execute" /\ exec.mode = "idle")
        => (/\ lastExec.res = "ok"
            /\ lastExec.applied = PlanOrder
            /\ lastExec.failed = FailedNow
            /\ lastExec.changed = ChangedUpTo(Len(planOps))
            /\ \A k \in 1..Len(lastExec.changed) :
                  LastOf(lastExec.changed[k]).res = "ok")

\* execute went on after the first operation failed: the second operation
\* was applied and is the one returned.
C17_Witness ==
    /\ lastExec.mode = "execute"
    /\ exec.mode = "idle"
    /\ lastExec.failed = <<1>>
    /\ lastExec.applied = <<1, 2>>
    /\ lastExec.changed = <<2>>
    /\ mtime["p"] = 1

\* C18: when try_execute has returned and no operation failed, it has
\* applied all of them in plan order and returned those that changed;
\* otherwise it has returned the error of the first operation that failed,
\* no later operation was applied, and what the earlier operations wrote is
\* still in their destinations.
C18_TryExecuteStrict ==
    (lastExec.mode = "try_execute" /\ exec.mode = "idle")
        => IF lastExec.failed = << >>
           THEN /\ lastExec.res = "ok"
                /\ lastExec.applied = PlanOrder
                /\ lastExec.changed = ChangedUpTo(Len(planOps))
           ELSE LET k == lastExec.failed[1] IN
                /\ lastExec.failed = <<k>>
                /\ lastExec.applied = SubSeq(PlanOrder, 1, k)
                /\ lastExec.res = LastOf(k).res
                /\ lastExec.res # "ok"
                /\ \A j \in (k + 1)..Len(planOps) : Len(opLog[j]) < Len(opLog[k])
                /\ \A j \in 1..(k - 1) :
                      (LastOf(j).changed /\ planOps[j].dest[1] = "FileSystem")
                          => files[planOps[j].dest[2]] = LastOf(j).out

\* try_execute wrote o for the first operation and returned the error of
\* the second: o keeps what was written.
C18_Witness ==
    /\ lastExec.mode = "try_execute"
    /\ exec.mode = "idle"
    /\ lastExec.res = "io_error"
    /\ lastExec.applied = <<1, 2>>
    /\ lastExec.failed = <<2>>
    /\ LastOf(1).changed
    /\ files["o"] = LastOf(1).out
    /\ mtime["o"] > 0

(***************************************************************************)
(* Claims about the reload action.                                         *)
(***************************************************************************)
\* This step is the call of OnReload::execute, up to its return or to the
\* first point at which the lock of the child is free again.
Reloaded == rCalls' = rCalls + 1

\* The action spawns a process.
Spawning == rAction[1] \in {"ShellCommand", "Executable"}

\* No call of execute is under way.
NoCallUnderWay == \A t \in Tasks : rTask[t].pc = "idle"

\* C19: a call of execute for a ShellCommand or Executable action first
\* takes the tracked child, if there is one, and sends it SIGINT, leaving
\* it running or exited as it was; only a call that has done so spawns a
\* process, and only a call that has spawned one stores it in the slot and
\* returns Ok. So after calls made one after the other, none of which has
\* failed, the slot holds the process spawned last, and every earlier
\* process was sent SIGINT before the next one was spawned.
C19_TrackedChild ==
    /\ [][(Reloaded /\ Spawning /\ rChild # None)
            => (/\ \E ok \in BOOLEAN :
                      rLog' = Append(rLog, <<"kill", rChild[2], SIGINT, ok>>)
                /\ rProcs' = rProcs
                /\ rChild' = None)]_vars
    /\ [][(Len(rProcs') > Len(rProcs))
            => \E t \in Tasks :
                  /\ rTask[t].pc = "spawn"
                  /\ rTask'[t].pc = "store"
                  /\ rProcs' = Append(rProcs, rProcs'[Len(rProcs')])
                  /\ rTask'[t].pid = rProcs'[Len(rProcs')].pid
                  /\ rLog' = Append(rLog, <<"spawn", rTask'[t].pid>>)
                  /\ rChild' = rChild]_vars
    /\ [][(rChild' # rChild /\ rChild' # None)
            => \E t \in Tasks :
                  /\ rTask[t].pc = "store"
                  /\ rTask'[t].pc = "idle"
                  /\ rChild' = Some(rTask[t].pid)
                  /\ rLast'.res = "ok"]_vars
    /\ []((Spawning /\ rFailed = 0 /\ ~rOverlapped)
            => (/\ NoCallUnderWay
                      => (/\ Len(rProcs) = rCalls
                          /\ rChild = IF rProcs = << >> THEN None
                                      ELSE Some(rProcs[Len(rProcs)].pid))
                /\ \A k \in 1..(Len(rProcs) - 1) :
                      \E a \in 1..Len(rLog), b \in 1..Len(rLog) :
                          /\ a < b
                          /\ rLog[a] = <<"kill", rProcs[k].pid, SIGINT, TRUE>>
                          /\ rLog[b] = <<"spawn", rProcs[k + 1].pid>>))

\* Three calls for an Executable action, made one after the other, have
\* succeeded: the third process is tracked, and the first two, which were
\* sent SIGINT, are still running.
C19_Witness ==
    /\ rAction = Executable("exe")
    /\ rCalls = 3
    /\ rFailed = 0
    /\ ~rOverlapped
    /\ NoCallUnderWay
    /\ rLast.res = "ok"
    /\ Len(rProcs) = 3
    /\ rChild = Some(rProcs[3].pid)
    /\ rProcs[1].status = "running"
    /\ rProcs[2].status = "running"
    /\ rWaited = {rProcs[1].pid, rProcs[2].pid}

\* The process a Signal action with a Pid or Parent target signals now.
TargetNow == IF rAction[3][1] = "Pid" THEN rAction[3][2] ELSE rPpid

\* The action is a Signal action whose target is one process.
SignalsOne == rAction[1] = "Signal" /\ rAction[3][1] \in {"Pid", "Parent"}

\* C20: a call of execute for the None or a Signal action leaves the slot
\* of the tracked child empty and spawns nothing; for None it does nothing
\* and returns Ok, and for a Signal action with a Pid or Parent target it
\* calls kill once with its signal, on the pid of the Pid target or on the
\* parent this process has at that time, whatever the calls before it did,
\* and returns Ok exactly when the kill succeeded.
C20_Stateless ==
    /\ [][~Spawning
            => (/\ rChild' = rChild
                /\ rProcs' = rProcs
                /\ rWaited' = rWaited)]_vars
    /\ [](~Spawning => (rChild = None /\ rProcs = << >>))
    /\ [][(Reloaded /\ rAction[1] = "None")
            => (rLog' = rLog /\ rLast'.res = "ok" /\ rTask' = rTask)]_vars
    /\ [][(Reloaded /\ SignalsOne)
            => \E t \in Tasks : rTask[t].pc = "idle" /\ rTask'[t].pc = "kill"]_vars
    /\ [][\A t \in Tasks :
            (SignalsOne /\ rTask[t].pc = "kill" /\ rTask'[t] # rTask[t])
                => IF rTask[t].sent = 0
                   THEN \E ok \in BOOLEAN :
                          /\ rLog' = Append(rLog, <<"kill", TargetNow, rAction[2], ok>>)
                          /\ IF ok THEN rTask'[t].pc = "kill" /\ rTask'[t].sent = 1
                             ELSE rTask'[t].pc = "idle" /\ rLast'.res = "err"
                   ELSE /\ rLog' = rLog
                        /\ rTask'[t].pc = "idle"
                        /\ rLast'.res = "ok"]_vars
    /\ []((SignalsOne /\ NoCallUnderWay) => Len(rLog) = rCalls)

\* Two calls for a Signal action with the Parent target, between which the
\* parent changed: each signalled the parent of its time.
C20_Witness ==
    /\ rAction = Signal("SIGHUP", ParentTarget)
    /\ rCalls = 2
    /\ NoCallUnderWay
    /\ rFailed = 0
    /\ rChild = None
    /\ rLog = << <<"kill", ParentPids[1], "SIGHUP", TRUE>>,
                 <<"kill", ParentPids[2], "SIGHUP", TRUE>> >>

\* How many times the signal was delivered to the process pid.
Delivered(pid) ==
    Cardinality({k \in 1..Len(rLog) : rLog[k][1] = "kill" /\ rLog[k][2] = pid
                                      /\ rLog[k][4]})

\* The pids of the processes with exactly this name.
PidsNamed(name) ==
    {ProcessTable[i].pid : i \in {j \in 1..Len(ProcessTable) : ProcessTable[j].name = name}}

\* C21: once the calls of execute for a Signal action with a ProcessName
\* target have all returned Ok, each of them has signalled every process
\* whose name is the target name, and no process with another name.
C21_ExactMatch ==
    (rAction[1] = "Signal" /\ rAction[3][1] = "ProcessName"
        /\ NoCallUnderWay /\ rFailed = 0)
        => \A i \in 1..Len(ProcessTable) :
              Delivered(ProcessTable[i].pid)
                  = IF ProcessTable[i].pid \in PidsNamed(rAction[3][2])
                    THEN rCalls ELSE 0

\* What a file holds, a file that does not exist holding nothing.
ContentOf(file) == IF file = None THEN << >> ELSE file[2]

\* C30: after a successful apply that is not a dry run, a file destination
\* holds exactly the rendered text, and changed = true was returned exactly
\* when what it held before (nothing, for a file that did not exist)
\* differed from the rendered text.
C30_WrittenAsRendered ==
    [][\A i \in 1..Len(planOps) :
          (Wrote(i) /\ planOps[i].dest[1] = "FileSystem")
              => (/\ files'[planOps[i].dest[2]] = lastApply'.out
                  /\ lastApply'.changed
                        <=> ContentOf(files[planOps[i].dest[2]]) # lastApply'.out[2])]_vars

\* The empty template was rendered to o, which existed and held more: o is
\* empty now and was written once.
C30_Witness ==
    /\ lastApply.op # 0
    /\ lastApply.res = "ok"
    /\ ~lastApply.dry_run
    /\ lastApply.changed
    /\ planOps[lastApply.op].dest = FileSystem("o")
    /\ lastApply.out = Some(<< >>)
    /\ files["o"] = Some(<< >>)
    /\ mtime["o"] = 1


(***************************************************************************)
(* The plan of the command line.                                           *)
(***************************************************************************)
\* Some operation of the plan writes to standard output.
HasStdOut(plan) == \E i \in 1..Len(plan) : plan[i].dest = StdOut

\* The destinations of the plan are pairwise distinct.
Distinct(plan) ==
    \A i \in 1..Len(plan) : \A j \in 1..Len(plan) :
        plan[i].dest = plan[j].dest => i = j

\* The command line names no input: no positional one, no --template.
NoInput == matches[2].input = << >> /\ matches[2].template = << >>

\* C24: a command line with --watch whose plan has a standard output
\* destination, the default plan from standard input to standard output
\* included, never gets past Cli::new: it is still to be parsed or was
\* refused, and main never builds its plan, so no template of it is read,
\* rendered or written.
C24_NoWatchToStdout ==
    (matches # None /\ matches[2].watch /\ HasStdOut(CliPlan(matches[2])))
        => /\ clPc \in {"args", "clap_error", "not_unique", "no_notify"}
           /\ clPlan = None

\* C24 witness: --watch alone, whose plan is the default one, was refused for
\* its standard output destination.
C24_Witness ==
    /\ clPc = "no_notify"
    /\ matches[2].watch
    /\ NoInput
    /\ matches[2].output = None

\* C25: the plan main gets from a command line Cli::new accepted has pairwise
\* distinct destinations, and it is the plan validate looked at.
C25_DistinctDestinations ==
    /\ clPc \in {"valid", "planned"} => Distinct(CliPlan(matches[2]))
    /\ clPlan # None => /\ Distinct(clPlan[2])
                        /\ clPlan[2] = CliPlan(matches[2])

\* C25 witness: main holds a plan of two operations.
C25_Witness ==
    /\ clPc = "planned"
    /\ Len(clPlan[2]) = 2
    /\ clPlan[2][1].dest # clPlan[2][2].dest

\* With --in-place every positional input and every single-value --template
\* gives the operation from the input's path to the same path, with the
\* suffix of --in-place as its backup extension; without --in-place an input
\* with no output of its own goes to standard output.
InputsAsGiven(m, plan) ==
    /\ IsInPlace(m.in_place) =>
          /\ \A i \in 1..Len(m.input) :
                plan[i] = [source |-> SourceFromPath(m.input[i]),
                           dest |-> DestFromPath(m.input[i]),
                           backup |-> Extension(m.in_place)]
          /\ \A i \in 1..Len(m.template) :
                Len(m.template[i]) = 1 =>
                    plan[i] = [source |-> SourceFromPath(m.template[i][1]),
                               dest |-> DestFromPath(m.template[i][1]),
                               backup |-> Extension(m.in_place)]
    /\ ~IsInPlace(m.in_place) =>
          /\ m.output = None =>
                \A i \in 1..Len(m.input) :
                    plan[i] = [source |-> SourceFromPath(m.input[i]),
                               dest |-> StdOut, backup |-> None]
          /\ \A i \in 1..Len(m.template) :
                Len(m.template[i]) = 1 =>
                    plan[i] = [source |-> SourceFromPath(m.template[i][1]),
                               dest |-> StdOut, backup |-> None]

\* C29 as stated: the plan main gets has its inputs as given, and with no
\* input at all it is the one operation from standard input to standard
\* output.
C29_PlanShape ==
    clPlan # None =>
        /\ InputsAsGiven(matches[2], clPlan[2])
        /\ NoInput => clPlan[2] = <<[source |-> StdIn, dest |-> StdOut,
                                     backup |-> None]>>

\* C29, amended: the plan main gets has its inputs as given, and with no
\* input at all it is the one operation from standard input to the path of
\* --output, which is standard output when --output is absent or a dash.
C29_PlanShapeOutput ==
    clPlan # None =>
        /\ InputsAsGiven(matches[2], clPlan[2])
        /\ NoInput =>
              clPlan[2] = <<[source |-> StdIn,
                             dest |-> IF matches[2].output = None THEN StdOut
                                      ELSE DestFromPath(matches[2].output[2]),
                             backup |-> None]>>

\* C29 witness: --output o with no input gave the plan from standard input to
\* the file o.
C29_Witness ==
    /\ clPlan # None
    /\ NoInput
    /\ matches[2].output = Some("o")
    /\ clPlan[2] = <<[source |-> StdIn, dest |-> FileSystem("o"), backup |-> None]>>


(***************************************************************************)
(* The program: the one-shot pass, the watch loop and the reload action.   *)
(***************************************************************************)
\* The calls of the callback so far are the passes after the first.
WatchRuns == {k \in 1..Len(gRuns) : gRuns[k].kind = "watch"}

\* The operations a pass found changed, found unchanged or saw fail.
ResultIs(run, kinds) == {i \in 1..Len(run.results) : run.results[i] \in kinds}

Errors == {"io_error", "template_error", "backup_would_be_overwritten"}

\* The destination paths of the operations a pass changed, in plan order.
RECURSIVE ChangedPaths(_, _)
ChangedPaths(run, i) ==
    IF i > Len(run.results) THEN << >>
    ELSE (IF run.results[i] = "changed" THEN <<gPlan[i].dest[2]>> ELSE << >>)
            \o ChangedPaths(run, i + 1)

\* C22: the process a call of the callback spawned has, as its
\* CONTEMPLATED_FILES, the comma-joined destination paths of the operations
\* that reported changed = true in that call, in plan order, and of no other
\* operation and no other call.
C22_ContemplatedFiles ==
    \A k \in WatchRuns :
        gRuns[k].spawned # 0 =>
            gRl.procs[gRuns[k].spawned].env = Intersperse(ChangedPaths(gRuns[k], 1))

\* C22 witness: a second call of the callback spawned a process after a pass
\* in which one operation changed its destination and another did not, the
\* first call having changed a destination too.
C22_Witness ==
    /\ Len(gRuns) = 3
    /\ gRuns[3].spawned # 0
    /\ ResultIs(gRuns[3], {"changed"}) # {}
    /\ ResultIs(gRuns[3], {"unchanged"} \cup Errors) # {}
    /\ ResultIs(gRuns[2], {"changed"}) # {}
    /\ gRuns[2].spawned # 0

\* In a call of the callback the reload action is executed at most once,
\* only after every operation was applied and only if one changed; a call
\* that has returned after its pass executed it if one changed.
ReloadOnce(k) ==
    LET run == gRuns[k] IN
    /\ run.reloads <= 1
    /\ run.reloads = 1 =>
          /\ run.appliedAtReload = Len(gPlan)
          /\ ResultIs(run, {"changed"}) # {}
    /\ (run.done /\ run.snapshot = "ok") =>
          /\ Len(run.results) = Len(gPlan)
          /\ run.reloads = (IF ResultIs(run, {"changed"}) # {} THEN 1 ELSE 0)

\* C23: in each call of the callback the reload action is executed exactly
\* once if an operation reported changed = true and not at all if none did,
\* and only after every operation of the plan was applied in that call; a
\* call in which an operation changed goes on to execute it.
C23_ReloadOncePerCycle ==
    /\ [](\A k \in WatchRuns : ReloadOnce(k))
    /\ (gPc \in {"apply", "reload"} /\ Cur.kind = "watch"
            /\ ResultIs(Cur, {"changed"}) # {})
          ~> (gPc = "recv" /\ Cur.reloads = 1)

\* C23 witness: a call of the callback applied two operations, one of which
\* changed its destination, and executed the reload action once; another
\* call changed nothing and executed nothing.
C23_Witness ==
    /\ Len(gRuns) = 3
    /\ Len(gPlan) = 2
    /\ gRuns[2].reloads = 1
    /\ gRuns[3].done
    /\ gRuns[3].snapshot = "ok"
    /\ gRuns[3].reloads = 0

\* A call of the callback has returned after a failure: a source that was
\* not available, data that could not be extracted, an operation that
\* failed, or a reload action that failed.
FailedCycle(k) ==
    /\ k \in WatchRuns
    /\ gRuns[k].done
    /\ \/ gRuns[k].recoverable
       \/ gRuns[k].snapshot # "ok"
       \/ ResultIs(gRuns[k], Errors) # {}
       \/ ~gRuns[k].reload_ok

\* C26: the watch loop never unwinds, and after a call of the callback that
\* failed, a queued notification starts the next call.
C26_LoopSurvives ==
    /\ [](gPc # "panicked")
    /\ [](\A k \in WatchRuns : gRuns[k].snapshot # "fatal")
    /\ (gPc = "recv" /\ FailedCycle(Len(gRuns)) /\ gChan > 0)
          ~> (gPc = "snapshot")

\* C26 witness: the first call of the callback saw an operation fail and the
\* reload action fail while a source was unavailable, and the second call is
\* under way.
C26_Witness ==
    /\ Len(gRuns) = 3
    /\ gRuns[2].recoverable
    /\ ResultIs(gRuns[2], Errors) # {}
    /\ ~gRuns[2].reload_ok
    /\ gRuns[3].snapshot = "extract_error"
    /\ gPc = "recv"

\* Caching the templates failed: main is past it with a source not cached.
CachingFailed ==
    /\ gPc \notin {"idle", "cache"}
    /\ \E i \in 1..Len(gPlan) : ~IsCached(gPlan[i].source)

\* The one-shot pass failed: at its sources, at the extraction or at an
\* operation.
OneshotFailed ==
    /\ gRuns # << >>
    /\ \/ gRuns[1].snapshot \in {"fatal", "extract_error"}
       \/ ResultIs(gRuns[1], Errors) # {}

\* The one-shot pass returned Ok: every operation was applied.
OneshotOk ==
    /\ gRuns # << >>
    /\ gRuns[1].kind = "oneshot"
    /\ gRuns[1].done
    /\ gRuns[1].snapshot = "ok"
    /\ Len(gRuns[1].results) = Len(gPlan)
    /\ ResultIs(gRuns[1], Errors) = {}

\* Something of watch mode has happened: a watcher was registered, the
\* callback was called, or the reload action was executed.
Watching ==
    \/ gRegistered > 0
    \/ gWatcher
    \/ Len(gRuns) > 1
    \/ gRl # NoReload
    \/ gChan > 0
    \/ gPc \in {"watch", "recv", "snapshot", "apply", "reload", "panicked"}

\* C27: nothing of watch mode happens before the one-shot pass has returned
\* Ok, and when caching the templates or the one-shot pass fails the process
\* has exited with a non-zero status and nothing of watch mode ever happened.
C27_OneshotFirst ==
    /\ Watching => (OneshotOk /\ ~CachingFailed /\ gArgs.matches.watch)
    /\ (CachingFailed \/ OneshotFailed) => (gPc = "exit1" /\ ~Watching)

\* C27 witness: in watch mode the second operation of the one-shot pass
\* failed after the first had been applied, and the process has exited.
C27_Witness ==
    /\ gArgs.matches.watch
    /\ gPc = "exit1"
    /\ Len(gRuns) = 1
    /\ Len(gRuns[1].results) = 2
    /\ gRuns[1].results[2] \in Errors

\* The data file as it is now gives some operation a rendering that is not
\* what its destination holds.
Alters ==
    /\ gData # None
    /\ \A i \in 1..Len(gPlan) :
          IsCached(gPlan[i].source)
              /\ Renders(gSt.engine[gPlan[i].source[2]][2], gData[2])
    /\ \E i \in 1..Len(gPlan) :
          Some(PushNewline(Render(gSt.engine[gPlan[i].source[2]][2], gData[2]),
                           gPlan[i].source[3]))
              # gSt.files[gPlan[i].dest[2]]

\* The one modification of the watched data file so far was notified and no
\* call of the callback has started yet.
OneModification ==
    /\ gEvents = 1
    /\ gWatcher
    /\ gSending + gChan = 1
    /\ Len(gRuns) = 1
    /\ ~gArgs.dry_run

\* The one call of the callback has returned: it changed a destination and
\* executed the reload action once, and the process it spawned, if any, has
\* the changed paths in its environment.
OneReconciliation ==
    /\ Len(gRuns) = 2
    /\ gRuns[2].done
    /\ ResultIs(gRuns[2], {"changed"}) # {}
    /\ gRuns[2].reloads = 1
    /\ gRuns[2].updated = ChangedPaths(gRuns[2], 1)
    /\ gRuns[2].spawned # 0 =>
          /\ Len(gRl.procs) = 1
          /\ \A i \in ResultIs(gRuns[2], {"changed"}) :
                \E j \in 1..Len(gRl.procs[1].env) :
                    gRl.procs[1].env[j] = gPlan[i].dest[2]

\* C28: with the File source watched, one modification of the data file (one
\* create, modify or remove event of its watcher) that alters the rendered
\* output starts one call of the callback, never more, and that call changes
\* a destination and executes the reload action once with the changed path;
\* unless the file is modified again before.
C28_EndToEnd ==
    /\ [](gEvents <= 1 => Cardinality(WatchRuns) <= 1)
    /\ (OneModification /\ Alters) ~> (gEvents > 1 \/ OneReconciliation)

\* C28 witness: one modification, one call of the callback, one process
\* spawned with the changed path o in its environment.
C28_Witness ==
    /\ gEvents = 1
    /\ OneReconciliation
    /\ gRuns[2].spawned = 1
    /\ gRl.procs[1].env = <<"o">>
    /\ gPc = "recv"
    /\ gChan = 0


\* C31: an apply that is not a dry run and returns Ok on an operation whose
\* destination is standard output appends the whole rendered text to
\* standard output and reports changed = true, whatever was emitted before,
\* and touches no file.
C31_StdOutAlwaysChanged ==
    [][\A i \in 1..Len(planOps) :
          (Wrote(i) /\ planOps[i].dest = StdOut)
              => (/\ lastApply'.changed
                  /\ lastApply'.out # None
                  /\ stdout' = Append(stdout, lastApply'.out[2])
                  /\ files' = files)]_vars

\* Standard output received the same text from two applies of the same
\* operation, and both reported a change.
C31_Witness ==
    /\ planOps[1].dest = StdOut
    /\ Len(opLog[1]) = 2
    /\ opLog[1][1].res = "ok" /\ ~opLog[1][1].dry_run /\ opLog[1][1].changed
    /\ opLog[1][2].res = "ok" /\ ~opLog[1][2].dry_run /\ opLog[1][2].changed
    /\ opLog[1][1].ctx = opLog[1][2].ctx
    /\ Len(stdout) = 2
    /\ stdout[1] = stdout[2]
    /\ stdout[1] # << >>


\* The source is standard input, read already or not: from_path gives "-"
\* to StdIn alone, so the cache name "-" is that of standard input.
FromStdIn(src) == src = StdIn \/ (IsCached(src) /\ src[2] = "-")

\* C32: an apply that is not a dry run, on an operation that reads standard
\* input and carries a backup extension, copies no file and fails at no
\* copy: it returns Ok, leaves every file as it is and writes the rendered
\* text to the destination.
C32_StdInNoBackup ==
    [][\A i \in 1..Len(planOps) :
          (/\ Applied(i)
           /\ ~lastApply'.dry_run
           /\ planOps[i].backup # None
           /\ FromStdIn(planOps[i].source))
              => (/\ lastApply'.res = "ok"
                  /\ files' = files
                  /\ planOps[i].dest = StdOut
                        => stdout' = Append(stdout, lastApply'.out[2]))]_vars


\* C33: an apply that fails with a template error, because the text does
\* not compile or does not render, leaves every file absent or with its
\* content and modification time (the backup and the destination among
\* them) and writes nothing to standard output.
C33_TemplateErrorTouchesNothing ==
    [][\A i \in 1..Len(planOps) :
          (Applied(i) /\ lastApply'.res = "template_error")
              => (/\ files' = files
                  /\ mtime' = mtime
                  /\ stdout' = stdout)]_vars

\* An apply that was no dry run, of an in-place operation with a backup
\* extension, failed at rendering a text that had compiled: the backup
\* does not exist and the destination holds the template as before.
C33_Witness ==
    /\ lastApply.op = 1
    /\ lastApply.res = "template_error"
    /\ ~lastApply.dry_run
    /\ lastApply.before # None
    /\ lastApply.before[2].backup = Some("bak")
    /\ planOps[1].dest = FileSystem("p")
    /\ IsCached(planOps[1].source)
    /\ engine["p"] = Some(<<"{{x|from_json}}">>)
    /\ files["p"] = Some(<<"{{x|from_json}}">>)
    /\ mtime["p"] = 0
    /\ files["p.bak"] = None


\* Operation i as Cli::plan made it, before its first apply.
Created(i) == IF opLog[i] = << >> THEN planOps[i] ELSE opLog[i][1].before[2]

\* Operation i was made with a backup extension and a source file.
CreatedWithBackup(i) ==
    /\ Created(i).backup # None
    /\ Created(i).source[1] = "FileSystem"

\* The backup path of operation i, made with a backup extension.
BackupOf(i) == BackupPath(Created(i).source[2], Created(i).backup[2])

\* The applies of the log that were no dry run.
WetApplies(log) == {k \in 1..Len(log) : ~log[k].dry_run}

\* C36: for an operation made with a backup extension and a source file,
\* the first apply that is not a dry run, when it succeeds, leaves in the
\* backup file what the source file held before it; and once an apply that
\* was not a dry run has succeeded, every later apply of the operation
\* leaves the backup file with its content and modification time.
C36_BackupOnce ==
    /\ [][\A i \in 1..Len(planOps) :
            (Wrote(i) /\ CreatedWithBackup(i) /\ WetApplies(opLog[i]) = {})
                => files'[BackupOf(i)] = files[Created(i).source[2]]]_vars
    /\ [][\A i \in 1..Len(planOps) :
            (/\ Applied(i)
             /\ CreatedWithBackup(i)
             /\ \E k \in WetApplies(opLog[i]) : opLog[i][k].res = "ok")
                => (/\ files'[BackupOf(i)] = files[BackupOf(i)]
                    /\ mtime'[BackupOf(i)] = mtime[BackupOf(i)])]_vars

\* The in-place operation on p with the extension bak was applied twice,
\* with two contexts, and rewrote p both times: p.bak was written once and
\* holds the template.
C36_Witness ==
    /\ Len(opLog[1]) = 2
    /\ opLog[1][1].before = Some(Op(FileSystem("p"), FileSystem("p"), Some("bak")))
    /\ opLog[1][1].res = "ok" /\ ~opLog[1][1].dry_run /\ opLog[1][1].changed
    /\ opLog[1][2].res = "ok" /\ ~opLog[1][2].dry_run /\ opLog[1][2].changed
    /\ files["p.bak"] = Some(<<"{{x}}">>)
    /\ files["p"] # files["p.bak"]
    /\ mtime["p.bak"] = 1
    /\ mtime["p"] = 2


\* An earlier apply of operation i failed with the backup collision error.
Collided(i) ==
    \E k \in 1..Len(opLog[i]) : opLog[i][k].res = "backup_would_be_overwritten"

\* The source file and the backup file of operation i were never written,
\* and the backup file differs from the source file.
StillCollides(i) ==
    /\ CreatedWithBackup(i)
    /\ mtime[Created(i).source[2]] = 0
    /\ mtime[BackupOf(i)] = 0
    /\ files[BackupOf(i)] # None
    /\ files[BackupOf(i)] # files[Created(i).source[2]]

\* C37: after an apply of an operation has failed with the backup
\* collision error, and while the source file and the backup file are as
\* they were, every apply of the operation that is not a dry run fails
\* with the same error and leaves every file and standard output as they
\* are.
C37_CollisionKeepsProtecting ==
    [][\A i \in 1..Len(planOps) :
          (Applied(i) /\ ~lastApply'.dry_run /\ Collided(i) /\ StillCollides(i))
              => (/\ lastApply'.res = "backup_would_be_overwritten"
                  /\ files' = files
                  /\ stdout' = stdout)]_vars


(***************************************************************************)
(* The templates of a plan whose sources share a cache name.               *)
(***************************************************************************)
\* Plan::ensure_cached has returned Ok: its loop is over and every source
\* is cached.
PlanCached ==
    /\ planI = 0
    /\ \A i \in 1..Len(planOps) : IsCached(planOps[i].source)

\* C38: once Plan::ensure_cached has succeeded, the template every
\* operation gets from the engine is the text that was read for that
\* operation, and its flag tells whether that text ended in a newline,
\* also when two operations have the same file or both have standard
\* input as their source.
C38_OwnTemplate ==
    PlanCached =>
        \A i \in 1..Len(planOps) :
            /\ GetTemplate(planOps[i].source, engine) = ecRaw[i]
            /\ planOps[i].source[3] = ContainsTrailingNewline(ecRaw[i][2])


(***************************************************************************)
(* Claims about the watchers of the sources.                               *)
(***************************************************************************)
\* C34: a File source notifies only when its watcher hands the handler a
\* create, modify or remove event, never for another kind of event and
\* never for an error of the watcher; an Environment source never holds a
\* Notifier and never notifies.
C34_FileNotifies ==
    /\ sKind = "file" =>
          \A k \in 1..Len(sLog) :
              sLog[k].notified =>
                  sLog[k].evt \in {FileOk("create"), FileOk("modify"), FileOk("remove")}
    /\ sKind = "environment" =>
          /\ sWatch \in {"none", "dropped"}
          /\ \A k \in 1..Len(sLog) : ~sLog[k].notified

\* The handler of a File source was handed an access event, an error and a
\* modify event, and notified for the last one alone.
C34_Witness ==
    /\ sKind = "file"
    /\ Len(sLog) = 3
    /\ sLog[1] = [evt |-> FileOk("access"), notified |-> FALSE]
    /\ sLog[2] = [evt |-> FileErr, notified |-> FALSE]
    /\ sLog[3] = [evt |-> FileOk("modify"), notified |-> TRUE]

\* C35: a cluster source notifies only for an item of the watch stream
\* that carries the object with altered data: an object of a list, which
\* carries it unaltered, sends no notification, and an error of the stream
\* sends none.
C35_GenerationOnly ==
    sKind \in ClusterKinds =>
        \A k \in 1..Len(sLog) :
            sLog[k].notified => (sLog[k].evt = "apply" /\ sLog[k].altered)


(***************************************************************************)
(* The program: when the reload action is executed.                        *)
(***************************************************************************)
\* C40: the reload action is executed only by a call of the callback of
\* the watch loop: never by the one-shot pass, whatever it changed, never
\* in a run without --watch, and never in a run with --dry-run.
C40_ReloadFromWatchOnly ==
    /\ [](\A k \in 1..Len(gRuns) :
            gRuns[k].reloads > 0
                => (/\ gRuns[k].kind = "watch"
                    /\ gArgs.matches.watch
                    /\ ~gArgs.dry_run))
    /\ []((~gArgs.matches.watch \/ gArgs.dry_run) => gRl = NoReload)
    /\ [][gRl' # gRl => (gPc = "reload" /\ Cur.kind = "watch")]_vars

\* The one-shot pass wrote a destination and executed nothing; the call of
\* the callback after a modification wrote it again and executed the
\* reload action.
C40_Witness ==
    /\ Len(gRuns) = 2
    /\ gRuns[1].kind = "oneshot"
    /\ ResultIs(gRuns[1], {"changed"}) # {}
    /\ gRuns[1].reloads = 0
    /\ gRuns[2].kind = "watch"
    /\ ResultIs(gRuns[2], {"changed"}) # {}
    /\ gRuns[2].reloads = 1
    /\ gRl # NoReload


(***************************************************************************)
(* The program: modifications of the data file and the watch loop.         *)
(***************************************************************************)
\* The run is in watch mode, the one-shot pass has returned Ok and no call
\* of the callback has started; the data file no longer holds what the
\* one-shot pass read, so it was modified after that read.
ModifiedSinceOneshot ==
    /\ gArgs.matches.watch
    /\ gPc \in {"watch", "recv"}
    /\ Len(gRuns) = 1
    /\ gRuns[1].snapshot = "ok"
    /\ gEvents >= 1
    /\ gData # Some(gRuns[1].ctx)

\* A call of the callback has started: it reads the data file as it is at
\* that time or later.
ReconciliationStarted ==
    /\ Len(gRuns) >= 2
    /\ gRuns[2].kind = "watch"

\* C39: in watch mode, a modification of the data file made after the
\* one-shot pass has read it, also one made before the watcher of the File
\* source is registered, is followed by a call of the callback.
C39_NoChangeMissed == ModifiedSinceOneshot ~> ReconciliationStarted

====
